---- MODULE Spec2Model ----
(***************************************************************************)
(* Photo pipeline of the warehouse console: the photo store's primary-flag *)
(* update (lib/supabase.js), the CameraModal and CameraCapture components  *)
(* and the camera they drive, the upload gateway (lib/uploadClient.js),    *)
(* the gallery manager PhotoManagerSecure and the ImageCropper editor.     *)
(*                                                                         *)
(* The specifications that share the module:                               *)
(*   SpecStore   the product_photos table under db.setPrimaryPhoto and     *)
(*               db.deleteProductPhoto calls of concurrent sessions;       *)
(*   SpecCamera  one CameraModal or CameraCapture instance and the         *)
(*               ImageCropper it mounts, with the camera hardware;         *)
(*   SpecGateway one call of uploadProductPhotoSecure;                     *)
(*   SpecGallery PhotoManagerSecure: uploadPhotos, loadPhotos and the      *)
(*               save callback of its CameraModal;                         *)
(*   SpecEditor  one ImageCropper instance: region, output spec, renders.  *)
(* Each leaves the variables of the other parts at their initial values.   *)
(***************************************************************************)
EXTENDS Integers, FiniteSets, Sequences, TLC

\* ------------------------------------------------------------------ bounds
\* rows of product_photos
MaxPhotos == 3
\* products the rows belong to
NumProducts == 2
\* sessions calling the store concurrently
MaxCallers == 2

\* camera streams getUserMedia hands out in one behaviour
MaxStreams == 2
\* getUserMedia requests in flight at once
MaxPending == 2
\* callbacks, timers and uploads of one kind in flight at once
MaxCallbacks == 1
\* object URLs created in one behaviour
MaxUrls == 2

\* files of one uploadPhotos batch
MaxBatch == 3
\* rows the gallery's list query is told apart by (the last value: that many or more)
MaxListed == 1
\* camera saves started in one behaviour
MaxCamUploads == 1
\* crop editor: confirmations started by one instance
MaxConfirms == 1
\* crop editor: 'Seleziona un'area da ritagliare' notifications counted
MaxToasts == 1
\* crop editor: preview encodes (canvas.toBlob of updatePreview) in flight
MaxEncodes == 1
\* camera page: uploads of handleCropConfirm of CameraModal in flight
MaxSaves == 2
\* upload gateway: files handed to one uploadMultiplePhotos call
MaxFiles == 3
\* crop editor: preview encodes in flight when the preview is modelled on its own
MaxInFlight == 3
\* crop editor: longest side, in pixels, of the images loaded on their own
MaxSide == 12

PhotoIds == 1..MaxPhotos
StreamIds == 1..MaxStreams
Products == 1..NumProducts
Callers == 1..MaxCallers

VARIABLES
    \* ---- product_photos table (remote)
    configured,     \* isSupabaseConfigured
    present,        \* ids of the rows that exist
    isPrimary,      \* is_primary of each row
    \* ---- one db.setPrimaryPhoto call per session
    callPc,         \* "idle" | "clearing" (first update in flight) | "setting" (second in flight)
    callPhoto,      \* photoId argument
    callProduct,    \* productId argument
    callCleared,    \* whether the first update succeeded (the code ignores this result)
    callResult,     \* what the last call returned: "none" | "ok" | "error"
    \* ---- camera page
    component,      \* the component the page uses: "modal" | "capture"
    mounted,        \* whether that component is mounted
    cam,            \* camera hardware: streams handed out, live streams, stop() calls
    modal,          \* CameraModal: state, refs and asynchronous work in flight
    capture,        \* CameraCapture: state and asynchronous work in flight
    cropper,        \* the ImageCropper instance the component mounts while editing
    \* ---- upload gateway, gallery manager, crop editor
    gateway,        \* one uploadProductPhotoSecure call: arguments, position, result
    multiple,       \* one uploadMultiplePhotos call: files, loop index, results
    gallery,        \* PhotoManagerSecure: state, the running batch, notifications
    editor          \* ImageCropper: image, region, drag, output spec, renders

storeVars == <<configured, present, isPrimary, callPc, callPhoto, callProduct,
               callCleared, callResult>>

camVars == <<component, mounted, cam, modal, capture, cropper>>

vars == <<storeVars, camVars, gateway, multiple, gallery, editor>>

\* what the store's steps leave alone, and what the camera page's steps leave alone
nonStoreVars == <<camVars, gateway, multiple, gallery, editor>>
nonCamVars == <<storeVars, gateway, multiple, gallery, editor>>
nonEditorVars == <<storeVars, camVars, gateway, multiple, gallery>>
nonGatewayVars == <<storeVars, camVars, gallery, editor>>

\* product_id of a row: fixed when the row is inserted
ProductOf(p) == ((p - 1) % NumProducts) + 1

PhotosOf(prod) == {p \in present : ProductOf(p) = prod}

PrimariesOf(prod) == {p \in PhotosOf(prod) : isPrimary[p]}

\* -------------------------------------------------- camera page: state
\* useState / useRef initial values of CameraModal, and nothing in flight
ModalInitial ==
    [isOpen |-> FALSE,          \* isCameraModalOpen of PhotoManagerSecure
     isLoading |-> FALSE,
     error |-> FALSE,           \* error !== null
     isActive |-> FALSE,
     capturing |-> FALSE,
     step |-> "camera",         \* currentStep
     blob |-> FALSE,            \* capturedBlob !== null
     streamRef |-> 0,           \* streamRef.current (0: null)
     videoSrc |-> 0,            \* videoRef.current.srcObject (0: null or no element)
     ready |-> FALSE,           \* the <video> reported canplay / playing for its srcObject
     earlySnapshot |-> FALSE,   \* the toBlob in flight was started before that report
     gumPending |-> 0,          \* getUserMedia promises not settled
     playPending |-> 0,         \* video.play() promises not settled
     readyTimers |-> 0,         \* the 1500 ms setTimeout of startCamera
     blobPending |-> 0,         \* canvas.toBlob callbacks of capturePhoto
     uploadPending |-> 0,       \* uploadProductPhotoSecure promises of handleCropConfirm
     closeTimers |-> 0,         \* the 1000 ms setTimeout(onClose) of handleCropConfirm
     reopened |-> FALSE]        \* the modal was opened again while such a timer was set

\* useState initial values of CameraCapture, and nothing in flight
CaptureInitial ==
    [isOpen |-> FALSE,
     stream |-> 0,              \* stream state (0: null)
     image |-> 0,               \* capturedImage: its object URL (0: null)
     isLoading |-> FALSE,
     facingMode |-> "environment",
     step |-> "camera",
     gumPending |-> 0,          \* getUserMedia promises not settled
     blobPending |-> [k \in 0..MaxStreams |-> 0],
                                \* canvas.toBlob callbacks of capturePhoto, by the
                                \* stream their stopCamera closure holds
     urls |-> 0,                \* URL.createObjectURL calls so far
     revoked |-> {}]            \* URLs passed to URL.revokeObjectURL

CropperInitial ==
    [processing |-> FALSE,      \* isProcessing of the mounted instance
     orphans |-> 0]             \* toBlob callbacks of handleConfirm of unmounted instances

\* the streams getUserMedia has given: the number of the latest, those with a
\* live track, and the stop() calls each received. With reuse set, a stream
\* that has ended and that nothing refers to any more is forgotten and its
\* number given to a later stream, so that streams without end can be given.
CameraInitial ==
    [acquired |-> 0, live |-> {}, stops |-> [s \in StreamIds |-> 0], reuse |-> FALSE]

\* ------------------------------------------------ upload gateway: state
\* the size limit of uploadProductPhotoSecure, in bytes
MaxFileSize == 10 * 1024 * 1024

\* file.type as its tokens, so that startsWith('image/') looks at a prefix
MimeTypes ==
    {<<"image", "/", "jpeg">>, <<"image", "/", "svg+xml">>,
     <<"text", "/", "plain">>, <<"image">>, <<>>}

FileSizes == {0, MaxFileSize - 1, MaxFileSize, MaxFileSize + 1, 12 * 1024 * 1024}

\* the file argument: null / undefined
NoFile == [given |-> FALSE, typed |-> FALSE, type |-> <<>>, size |-> 0]

\* a File or Blob, and an object that has no type property
UploadFiles ==
    {[given |-> TRUE, typed |-> TRUE, type |-> t, size |-> n] :
        t \in MimeTypes, n \in FileSizes}
    \cup {[given |-> TRUE, typed |-> FALSE, type |-> <<>>, size |-> 0]}

UploadInputs == {NoFile} \cup UploadFiles

\* the functions of the client that return {data, error}
GatewayFunctions == {"upload", "setPrimary", "delete"}

\* no call of uploadProductPhotoSecure made yet
GatewayInitial ==
    [fn |-> "upload",           \* the function called
     pc |-> "idle",             \* "idle" | "fetching" | "parsing" | "returned" | "threw"
     file |-> NoFile,
     productId |-> 0,           \* 0: null
     isFirst |-> FALSE,
     requests |-> 0,            \* fetch calls made by this call
     responseOk |-> FALSE,      \* response.ok of the response received
     data |-> "null",           \* the data of the value returned
     error |-> "null"]          \* the error of the value returned

\* the File objects of a FileList or File[] handed to uploadMultiplePhotos: an
\* image of exactly the limit, an image above it, and a text file
MultipleFiles ==
    {[given |-> TRUE, typed |-> TRUE, type |-> <<"image", "/", "jpeg">>, size |-> MaxFileSize],
     [given |-> TRUE, typed |-> TRUE, type |-> <<"image", "/", "jpeg">>, size |-> MaxFileSize + 1],
     [given |-> TRUE, typed |-> TRUE, type |-> <<"text", "/", "plain">>, size |-> 0]}

\* uploadMultiplePhotos not called
MultipleInitial ==
    [pc |-> "idle",             \* "idle" | "loop" | "awaiting" | "returned" | "threw"
     files |-> <<>>,
     productId |-> 0,           \* 0: null
     i |-> 0,                   \* the loop variable
     calls |-> <<>>,            \* history: the uploadProductPhotoSecure calls made, each
                                \* with the number of results recorded when it was made
     successes |-> <<>>,
     errors |-> <<>>]           \* {file, error}; file.name is the file's position

\* ------------------------------------------------ gallery manager: state
\* the files a FileList of the <input type="file"> can hold, by what the checks see
GalleryFileKinds == {"good", "tooLarge", "notImage"}

\* the File of each kind
GalleryFile(kind) ==
    [given |-> TRUE, typed |-> TRUE,
     type |-> IF kind = "notImage" THEN <<"text", "/", "plain">> ELSE <<"image", "/", "jpeg">>,
     size |-> IF kind = "tooLarge" THEN MaxFileSize + 1 ELSE MaxFileSize]

Batches ==
    UNION {[1..n -> GalleryFileKinds] : n \in 1..MaxBatch}

\* useState initial values of PhotoManagerSecure after its mount effects, with
\* no productId; nothing in flight
GalleryInitial ==
    [productId |-> 0,           \* the productId prop (0: none)
     hasTempCallback |-> FALSE, \* the onTempPhotoSave prop is given
     photos |-> 0,              \* photos state: rows of the last list result applied
     server |-> 0,              \* rows of the product on the server
     loading |-> FALSE,
     uploading |-> FALSE,
     apiStatus |-> "working",
     lists |-> <<>>,            \* getProductPhotos calls of loadPhotos in flight, in
                                \* call order: [rows: the server's rows at the call,
                                \* latest: no loadPhotos was called since,
                                \* awaited: uploadPhotos awaits it]
     latestRows |-> -1,         \* the result of the loadPhotos called last (-1: none yet)
     pc |-> "idle",             \* uploadPhotos: "idle" | "temp" | "loop" | "refresh"
     batch |-> <<>>,            \* the files of the last uploadPhotos call
     idx |-> 0,                 \* the file the for loop is at
     status |-> <<>>,           \* per file: "new" | "sent" | "ok" | "failed"
     requests |-> <<>>,         \* per file: upload requests issued
     tempSaved |-> <<>>,        \* per file: onTempPhotoSave calls
     successCount |-> 0,
     errorCount |-> 0,
     successToast |-> -1,       \* the count of the aggregate toast.success (-1: none)
     failureToast |-> -1,       \* the count of the aggregate toast.error (-1: none)
     fileErrors |-> 0,          \* per-file toast.error calls of the batch
     notice |-> FALSE,          \* toast 'Salva prima il prodotto ...' shown
     camStarted |-> 0,          \* handleCropConfirm calls of the CameraModal
     camUploads |-> 0,          \* their uploads in flight
     camStored |-> 0,           \* their uploads that returned a descriptor
     savedCalls |-> 0]          \* onPhotoSaved calls

\* --------------------------------------------------- crop editor: state
\* a <canvas> is 300 x 150 until its width and height are assigned
DefaultCanvas == [width |-> 300, height |-> 150]

NoSize == [width |-> 0, height |-> 0]

\* the decoded sizes of the imageBlob handed to the editor
ImageSizes == {[width |-> 1280, height |-> 720]}

\* Positions and extents of the crop region are kept in tenths of a canvas
\* pixel, in which img.width * 0.1 is a whole number: n pixels are Px(n).
Px(n) == n * 10

\* pointer positions over the canvas: (e.clientX - rect.left) * scaleX
PointerPoints ==
    {[x |-> Px(0), y |-> Px(0)], [x |-> Px(200), y |-> Px(0)],
     [x |-> Px(100), y |-> Px(720)], [x |-> Px(1280), y |-> Px(0)]}

\* what parseInt(e.target.value) gives for the text typed in a size field
\* (0: NaN or 0, which `|| 800` / `|| 600` replace)
TypedSizes == {0, 100}

\* the values of the scale and quality sliders, in tenths
ScaleTenths == {10, 15}
QualityTenths == {5, 8}

\* useState / useRef initial values of ImageCropper, and nothing in flight
EditorInitial ==
    [mounted |-> FALSE,
     source |-> NoSize,                 \* img.width, img.height of imageBlob
     loadPending |-> FALSE,             \* img.onload not yet run
     imageLoaded |-> FALSE,             \* imageRef.current !== null
     imageSize |-> NoSize,
     canvas |-> DefaultCanvas,          \* canvasRef.current.width / height
     cropArea |-> [x |-> 0, y |-> 0, width |-> 0, height |-> 0],   \* tenths
     isDragging |-> FALSE,
     dragStart |-> [x |-> 0, y |-> 0],                             \* tenths
     scale |-> 10,                      \* tenths
     quality |-> 8,                     \* tenths
     outputSize |-> [width |-> 800, height |-> 600],
     previewCanvas |-> DefaultCanvas,   \* previewCanvasRef.current.width / height
     previewEncodes |-> <<>>,           \* toBlob calls of updatePreview in flight, in call
                                        \* order: [canvas: the bitmap's size, latest:
                                        \* no updatePreview has encoded since]
     previewBlob |-> FALSE,             \* previewBlob !== null
     previewLatest |-> FALSE,           \* previewBlob is the encode of the latest updatePreview
     isProcessing |-> FALSE,
     converting |-> NoSize,             \* the canvas of handleConfirm whose toBlob is in flight
     toasts |-> 0,                      \* toast.error('Seleziona un'area da ritagliare')
     confirms |-> 0,                    \* handleConfirm runs that started a conversion
     confirmPending |-> FALSE,          \* the toBlob callback of handleConfirm is in flight
     onConfirmCalls |-> 0,
     edited |-> NoSize,                 \* the size of the blob passed to onConfirm
     onCancelCalls |-> 0]

\* the parts a specification does not exercise stay as constructed
IdleGateway == gateway = GatewayInitial /\ multiple = MultipleInitial
IdleGallery == gallery = GalleryInitial
IdleEditor == editor = EditorInitial

IdleCamera ==
    /\ component = "modal"
    /\ mounted = FALSE
    /\ cam = CameraInitial
    /\ modal = ModalInitial
    /\ capture = CaptureInitial
    /\ cropper = CropperInitial

\* ------------------------------------------------------------- store: Init
IdleStore ==
    /\ configured = TRUE
    /\ present = PhotoIds
    /\ isPrimary = [p \in PhotoIds |-> FALSE]
    /\ callPc = [c \in Callers |-> "idle"]
    /\ callPhoto = [c \in Callers |-> 1]
    /\ callProduct = [c \in Callers |-> 1]
    /\ callCleared = [c \in Callers |-> FALSE]
    /\ callResult = [c \in Callers |-> "none"]

InitStore ==
    /\ IdleCamera
    /\ IdleGateway /\ IdleGallery /\ IdleEditor
    /\ configured \in BOOLEAN
    /\ present = PhotoIds
    /\ isPrimary \in {f \in [PhotoIds -> BOOLEAN] :
                        \A prod \in Products :
                            Cardinality({p \in PhotoIds : ProductOf(p) = prod /\ f[p]}) <= 1}
    /\ callPc = [c \in Callers |-> "idle"]
    /\ callPhoto = [c \in Callers |-> 1]
    /\ callProduct = [c \in Callers |-> 1]
    /\ callCleared = [c \in Callers |-> FALSE]
    /\ callResult = [c \in Callers |-> "none"]

\* ---------------------------------------------------------- store: actions
\* update({is_primary: false}).eq('product_id', productId)
ClearPrimary(flags, prod) ==
    [p \in PhotoIds |-> IF p \in present /\ ProductOf(p) = prod THEN FALSE ELSE flags[p]]

\* update({is_primary: true}).eq('id', photoId): no row matches a deleted id
MarkPrimary(flags, photoId) ==
    [p \in PhotoIds |-> IF p = photoId /\ p \in present THEN TRUE ELSE flags[p]]

\* setPrimaryPhoto with the client not configured: returns the error at once
SetPrimaryNotConfigured(c, photoId, productId) ==
    /\ callPc[c] = "idle"
    /\ ~configured
    /\ callPhoto' = [callPhoto EXCEPT ![c] = photoId]
    /\ callProduct' = [callProduct EXCEPT ![c] = productId]
    /\ callResult' = [callResult EXCEPT ![c] = "error"]
    /\ UNCHANGED nonStoreVars
    /\ UNCHANGED <<configured, present, isPrimary, callPc, callCleared>>

\* setPrimaryPhoto entered: the first update is sent and awaited
SetPrimaryCall(c, photoId, productId) ==
    /\ callPc[c] = "idle"
    /\ configured
    /\ callPc' = [callPc EXCEPT ![c] = "clearing"]
    /\ callPhoto' = [callPhoto EXCEPT ![c] = photoId]
    /\ callProduct' = [callProduct EXCEPT ![c] = productId]
    /\ callCleared' = [callCleared EXCEPT ![c] = FALSE]
    /\ callResult' = [callResult EXCEPT ![c] = "none"]
    /\ UNCHANGED nonStoreVars
    /\ UNCHANGED <<configured, present, isPrimary>>

\* the first update is applied (or fails: its {error} result is not looked at)
\* and the second update is sent
SetPrimaryClear(c, ok) ==
    /\ callPc[c] = "clearing"
    /\ isPrimary' = IF ok THEN ClearPrimary(isPrimary, callProduct[c]) ELSE isPrimary
    /\ callCleared' = [callCleared EXCEPT ![c] = ok]
    /\ callPc' = [callPc EXCEPT ![c] = "setting"]
    /\ UNCHANGED nonStoreVars
    /\ UNCHANGED <<configured, present, callPhoto, callProduct, callResult>>

\* the second update is applied (or fails) and its result is returned
SetPrimarySet(c, ok) ==
    /\ callPc[c] = "setting"
    /\ isPrimary' = IF ok THEN MarkPrimary(isPrimary, callPhoto[c]) ELSE isPrimary
    /\ callResult' = [callResult EXCEPT ![c] = IF ok THEN "ok" ELSE "error"]
    /\ callPc' = [callPc EXCEPT ![c] = "idle"]
    /\ UNCHANGED nonStoreVars
    /\ UNCHANGED <<configured, present, callPhoto, callProduct, callCleared>>

\* deleteProductPhoto: one delete().eq('id', photoId)
DeleteProductPhoto(p) ==
    /\ configured
    /\ p \in present
    /\ present' = present \ {p}
    /\ isPrimary' = [isPrimary EXCEPT ![p] = FALSE]
    /\ UNCHANGED nonStoreVars
    /\ UNCHANGED <<configured, callPc, callPhoto, callProduct, callCleared, callResult>>

NextStore ==
    \/ \E c \in Callers, p \in PhotoIds, prod \in Products : SetPrimaryNotConfigured(c, p, prod)
    \/ \E c \in Callers, p \in PhotoIds, prod \in Products : SetPrimaryCall(c, p, prod)
    \/ \E c \in Callers, ok \in BOOLEAN : SetPrimaryClear(c, ok)
    \/ \E c \in Callers, ok \in BOOLEAN : SetPrimarySet(c, ok)
    \/ \E p \in PhotoIds : DeleteProductPhoto(p)

SpecStore == InitStore /\ [][NextStore]_vars

\* --------------------------------------------------------- store: claims
\* a step in which call c returns from its second update
Returns(c) == callPc[c] = "setting" /\ callPc'[c] = "idle"

\* C1: at most one photo of a product is primary in every reachable state,
\* also under interleavings of concurrent setPrimaryPhoto calls. Stated on the
\* calls the claim is about: a call whose photo belongs to its product and whose
\* two updates both succeed never returns leaving two primaries.
C1_AtMostOnePrimaryUnderInterleaving ==
    [][\A c \in Callers :
         (/\ Returns(c)
          /\ callCleared[c]
          /\ callResult'[c] = "ok"
          /\ callPhoto[c] \in PhotosOf(callProduct[c]))
         => Cardinality(PrimariesOf(callProduct[c]))' <= 1]_vars

\* C2: after setPrimaryPhoto(photoId, productId) returns, exactly one photo
\* of productId is primary, for every photoId and every prior distribution.
\* Stated for calls both of whose updates succeeded.
C2_ExactlyOnePrimaryAfterReturn ==
    [][\A c \in Callers :
         (/\ Returns(c)
          /\ callCleared[c]
          /\ callResult'[c] = "ok")
         => Cardinality(PrimariesOf(callProduct[c]))' = 1]_vars

\* ------------------------------------------------- camera page: helpers
\* The page as one value, so that a handler is a function from page to page
\* and a handler that calls another composes with it.
Page == [component |-> component, mounted |-> mounted, cam |-> cam, m |-> modal, c |-> capture, cr |-> cropper]

Min(a, b) == IF a < b THEN a ELSE b

\* stream.getTracks().forEach(track => track.stop()); the stop() calls a
\* stream received are counted as 0, 1 or 2 (two or more)
StopTracks(S, s) ==
    [S EXCEPT !.cam.live = @ \ {s},
              !.cam.stops[s] = Min(@ + 1, 2)]

\* the streams that are live or that a ref, a state or a closure still holds
StreamsInUse(S) ==
    S.cam.live \cup {S.m.streamRef, S.m.videoSrc, S.c.stream}
        \cup {k \in DOMAIN S.c.blobPending : S.c.blobPending[k] > 0}

\* getUserMedia resolves with a new stream whose tracks are live
NewStream(S) ==
    IF S.cam.reuse
    THEN LET free == StreamIds \ StreamsInUse(S)
         IN  IF free = {} THEN MaxStreams + 1
             ELSE CHOOSE s \in free : \A t \in free : s <= t
    ELSE S.cam.acquired + 1

Acquire(S) ==
    LET s == NewStream(S)
    IN  IF S.cam.reuse /\ s \in StreamIds
        THEN [S EXCEPT !.cam.acquired = s,
                       !.cam.live = @ \cup {s},
                       !.cam.stops[s] = 0]
        ELSE [S EXCEPT !.cam.acquired = s,
                       !.cam.live = @ \cup {s}]

\* the <video> of CameraModal is rendered in the camera step of the open modal
ModalVideoMounted(S) ==
    S.component = "modal" /\ S.mounted /\ S.m.isOpen /\ S.m.step = "camera"

\* <ImageCropper> is rendered when currentStep === 'editing' and an image is held
CropperMounted(S) ==
    \/ /\ S.component = "modal" /\ S.mounted
       /\ S.m.isOpen /\ S.m.step = "editing" /\ S.m.blob
    \/ /\ S.component = "capture" /\ S.mounted
       /\ S.c.isOpen /\ S.c.step = "editing" /\ S.c.image # 0

\* What a re-render does to elements and child instances: a removed <video>
\* takes its srcObject with it, and a removed ImageCropper leaves the toBlob
\* callback of its handleConfirm in flight.
Render(S) ==
    LET S1 == IF ModalVideoMounted(S) THEN S
              ELSE [S EXCEPT !.m.videoSrc = 0, !.m.ready = FALSE]
    IN  IF CropperMounted(S1) \/ ~S1.cr.processing
        THEN IF CropperMounted(S1) THEN S1 ELSE [S1 EXCEPT !.cr.processing = FALSE]
        ELSE [S1 EXCEPT !.cr.processing = FALSE, !.cr.orphans = @ + 1]

RECURSIVE SumTo(_, _)
SumTo(f, n) == IF n < 0 THEN 0 ELSE f[n] + SumTo(f, n - 1)

\* the counters of work in flight stay within the model's bounds
WithinBounds(S) ==
    /\ S.m.gumPending <= MaxPending
    /\ S.m.playPending <= MaxCallbacks
    /\ S.m.readyTimers <= MaxCallbacks
    /\ S.m.blobPending <= MaxCallbacks
    /\ S.m.uploadPending <= MaxSaves
    /\ S.m.closeTimers <= MaxCallbacks
    /\ S.c.gumPending <= MaxPending
    /\ SumTo(S.c.blobPending, MaxStreams) <= MaxCallbacks
    /\ S.c.urls <= MaxUrls
    /\ S.cr.orphans <= MaxCallbacks
    /\ S.cam.acquired <= MaxStreams

\* A state setter of a component that is no longer mounted does nothing: its
\* state keeps the values it had, while refs, timers, promises, streams and
\* object URLs still change.
Unmounted(S) ==
    [S EXCEPT !.m.isOpen = modal.isOpen,
              !.m.isLoading = modal.isLoading,
              !.m.error = modal.error,
              !.m.isActive = modal.isActive,
              !.m.capturing = modal.capturing,
              !.m.step = modal.step,
              !.m.blob = modal.blob,
              !.c.isOpen = capture.isOpen,
              !.c.stream = capture.stream,
              !.c.image = capture.image,
              !.c.isLoading = capture.isLoading,
              !.c.facingMode = capture.facingMode,
              !.c.step = capture.step,
              !.cr.processing = cropper.processing]

\* the page after a handler: re-rendered, the store untouched
Becomes(S) ==
    \E R \in {IF mounted THEN Render(S) ELSE Unmounted(S)} :
        /\ WithinBounds(R)
        /\ component' = R.component
        /\ mounted' = R.mounted
        /\ cam' = R.cam
        /\ modal' = R.m
        /\ capture' = R.c
        /\ cropper' = R.cr
        /\ UNCHANGED nonCamVars

\* ------------------------------------------------ CameraModal: handlers
\* stopCamera without `streamRef.current = null`: the variant whose second call
\* finds the stream again
ModalStopCameraKeepingRef(S) ==
    LET S1 == IF S.m.streamRef # 0 THEN StopTracks(S, S.m.streamRef) ELSE S
    IN  [S1 EXCEPT !.m.videoSrc = 0,
                   !.m.ready = FALSE,
                   !.m.isActive = FALSE,
                   !.m.error = FALSE]

\* stopCamera
ModalStopCamera(S) ==
    LET S1 == IF S.m.streamRef # 0 THEN StopTracks(S, S.m.streamRef) ELSE S
    IN  [S1 EXCEPT !.m.streamRef = 0,
                   !.m.videoSrc = 0,
                   !.m.ready = FALSE,
                   !.m.isActive = FALSE,
                   !.m.error = FALSE]

\* startCamera up to its await of getUserMedia
ModalStartCamera(S) ==
    [S EXCEPT !.m.isLoading = TRUE,
              !.m.error = FALSE,
              !.m.gumPending = @ + 1]

\* the effect on [isOpen]: the cleanup of the previous run, then the body
ModalOpenEffect(S) ==
    IF S.m.isOpen
    THEN ModalStartCamera(ModalStopCamera(S))
    ELSE ModalStopCamera(ModalStopCamera(S))

\* onClose of PhotoManagerSecure: setIsCameraModalOpen(false)
ModalOnClose(S) ==
    IF S.mounted /\ S.m.isOpen
    THEN ModalOpenEffect([S EXCEPT !.m.isOpen = FALSE])
    ELSE S

\* the Fotocamera button: setIsCameraModalOpen(true)
ModalOpen(S) ==
    ModalOpenEffect([S EXCEPT !.m.isOpen = TRUE, !.m.reopened = (S.m.closeTimers > 0)])

\* startCamera after getUserMedia resolved with a stream
ModalStreamAcquired(S) ==
    LET s  == NewStream(S)
        S1 == [Acquire(S) EXCEPT !.m.gumPending = @ - 1, !.m.streamRef = s]
    IN  IF ModalVideoMounted(S1)
        THEN [S1 EXCEPT !.m.videoSrc = s, !.m.ready = FALSE, !.m.playPending = @ + 1]
        ELSE [S1 EXCEPT !.m.isLoading = FALSE]

\* startCamera after getUserMedia rejected: catch and finally
ModalStreamRefused(S) ==
    [S EXCEPT !.m.gumPending = @ - 1, !.m.error = TRUE, !.m.isLoading = FALSE]

\* startCamera after video.play() settled: the safety timeout is set, or the
\* rejection is caught; finally. A play() that resolved on a live stream is a
\* report that the element plays.
ModalPlaySettled(S, ok) ==
    [S EXCEPT !.m.playPending = @ - 1,
              !.m.ready = IF ok /\ S.m.videoSrc \in S.cam.live THEN TRUE ELSE @,
              !.m.readyTimers = IF ok THEN @ + 1 ELSE @,
              !.m.error = IF ok THEN @ ELSE TRUE,
              !.m.isLoading = FALSE]

\* the safety timeout: if (videoRef.current && streamRef.current) setIsActive(true)
ModalReadyTimeout(S) ==
    LET S1 == [S EXCEPT !.m.readyTimers = @ - 1]
    IN  IF ModalVideoMounted(S1) /\ S1.m.streamRef # 0
        THEN [S1 EXCEPT !.m.isActive = TRUE]
        ELSE S1

\* the canplay / playing listeners
ModalVideoPlaying(S) == [S EXCEPT !.m.isActive = TRUE, !.m.ready = TRUE]

\* capturePhoto up to canvas.toBlob
ModalCapturePhoto(S) ==
    IF ~S.m.isActive \/ ~ModalVideoMounted(S) \/ S.m.capturing
    THEN S
    ELSE [S EXCEPT !.m.capturing = TRUE,
                   !.m.blobPending = @ + 1,
                   !.m.earlySnapshot = ~S.m.ready]

\* the toBlob callback of capturePhoto
ModalBlobReady(S, ok) ==
    LET S1 == [S EXCEPT !.m.blobPending = @ - 1, !.m.earlySnapshot = FALSE]
        S2 == IF ok
              THEN ModalStopCamera([S1 EXCEPT !.m.blob = TRUE, !.m.step = "editing"])
              ELSE S1
    IN  [S2 EXCEPT !.m.capturing = FALSE]

\* handleCropConfirm up to its await of uploadProductPhotoSecure
ModalCropConfirm(S) == [S EXCEPT !.m.uploadPending = @ + 1]

\* what uploadProductPhotoSecure settles with for the JPEG file of
\* handleCropConfirm: the stored photo, 'Errore di rete' or an HTTP error
\* (transport), or the local refusal of a file over the size limit
ModalUploadOutcomes == {"ok", "network", "http", "tooLarge"}

\* handleCropConfirm after the upload settled: any result with an error is
\* thrown into the one catch
ModalUploadSettled(S, outcome) ==
    LET S1 == [S EXCEPT !.m.uploadPending = @ - 1]
    IN  IF outcome = "ok"
        THEN [S1 EXCEPT !.m.blob = FALSE, !.m.step = "camera", !.m.closeTimers = @ + 1]
        ELSE S1

\* the timeout handleCropConfirm sets after a save: onClose()
ModalCloseTimeout(S) ==
    ModalOnClose([S EXCEPT !.m.closeTimers = @ - 1, !.m.reopened = FALSE])

\* cancelEditing
ModalCancelEditing(S) ==
    ModalStartCamera([S EXCEPT !.m.blob = FALSE, !.m.step = "camera"])

\* handleClose
ModalHandleClose(S) ==
    ModalOnClose([ModalStopCamera(S) EXCEPT !.m.blob = FALSE, !.m.step = "camera"])

\* the cleanup of the effect on [isOpen] when the component is removed
ModalUnmountCleanup(S) == [ModalStopCamera(S) EXCEPT !.mounted = FALSE]

\* ---------------------------------------------- CameraCapture: handlers
\* stopCamera = useCallback(..., [stream]): k is the stream its closure holds
CaptureStopCamera(S, k) ==
    IF k # 0 THEN [StopTracks(S, k) EXCEPT !.c.stream = 0] ELSE S

\* startCamera = useCallback(..., [facingMode, stream]) up to its await of
\* getUserMedia: k is the stream its closure holds
CaptureStartCamera(S, k) ==
    LET S1 == IF k # 0 THEN StopTracks(S, k) ELSE S
    IN  [S1 EXCEPT !.c.isLoading = TRUE, !.c.gumPending = @ + 1]

\* the effect on [isOpen, currentStep, capturedImage, startCamera]
CaptureOpenEffect(S) ==
    IF S.c.isOpen /\ S.c.step = "camera" /\ S.c.image = 0
    THEN CaptureStartCamera(S, S.c.stream)
    ELSE S

\* the dependencies of that effect: startCamera changes with facingMode and stream
CaptureEffectDeps(S) ==
    <<S.c.isOpen, S.c.step, S.c.image, S.c.facingMode, S.c.stream>>

\* the re-render after a handler that turned page S0 into S1: the effect runs
\* again when one of its dependencies changed
CaptureRerender(S0, S1) ==
    IF S1.mounted /\ CaptureEffectDeps(S0) # CaptureEffectDeps(S1)
    THEN CaptureOpenEffect(S1)
    ELSE S1

\* startCamera after getUserMedia resolved: setStream(mediaStream); finally
CaptureStreamAcquired(S) ==
    [Acquire(S) EXCEPT !.c.gumPending = @ - 1,
                       !.c.stream = NewStream(S),
                       !.c.isLoading = FALSE]

\* startCamera after getUserMedia rejected: catch and finally
CaptureStreamRefused(S) ==
    [S EXCEPT !.c.gumPending = @ - 1, !.c.isLoading = FALSE]

\* capturePhoto up to canvas.toBlob; its callback keeps the stopCamera of this render
CaptureCapturePhoto(S) ==
    [S EXCEPT !.c.blobPending[S.c.stream] = @ + 1]

\* the toBlob callback of capturePhoto, its closure holding stream k
CaptureBlobReady(S, k, ok) ==
    LET S1 == [S EXCEPT !.c.blobPending[k] = @ - 1]
    IN  IF ok
        THEN CaptureStopCamera([S1 EXCEPT !.c.urls = @ + 1,
                                          !.c.image = S1.c.urls + 1,
                                          !.c.step = "editing"], k)
        ELSE S1

\* handleCropConfirm
CaptureCropConfirm(S) ==
    [S EXCEPT !.c.urls = @ + 1, !.c.image = S.c.urls + 1, !.c.step = "preview"]

\* confirmPhoto: onCapture, then onClose of the parent
CaptureConfirmPhoto(S) ==
    IF S.c.image # 0
    THEN [S EXCEPT !.c.image = 0, !.c.step = "camera", !.c.isOpen = FALSE]
    ELSE S

\* retakePhoto
CaptureRetakePhoto(S) ==
    LET S1 == IF S.c.image # 0
              THEN [S EXCEPT !.c.revoked = @ \cup {S.c.image}, !.c.image = 0]
              ELSE S
    IN  CaptureStartCamera([S1 EXCEPT !.c.step = "camera"], S.c.stream)

\* backToEditing
CaptureBackToEditing(S) == [S EXCEPT !.c.step = "editing"]

\* cancelEditing
CaptureCancelEditing(S) ==
    CaptureStartCamera([S EXCEPT !.c.step = "camera"], S.c.stream)

\* switchCamera
CaptureSwitchCamera(S) ==
    [S EXCEPT !.c.facingMode = IF @ = "user" THEN "environment" ELSE "user"]

\* handleClose
CaptureHandleClose(S) ==
    LET S1 == CaptureStopCamera(S, S.c.stream)
        S2 == IF S1.c.image # 0
              THEN [S1 EXCEPT !.c.revoked = @ \cup {S1.c.image}, !.c.image = 0]
              ELSE S1
    IN  [S2 EXCEPT !.c.step = "camera", !.c.isOpen = FALSE]

\* the parent opens the component
CaptureOpen(S) == [S EXCEPT !.c.isOpen = TRUE]

\* the cleanup of the effect on []: it keeps stopCamera and capturedImage of
\* the first render, where stream and capturedImage are null
CaptureUnmountCleanup(S) ==
    LET k0   == CaptureInitial.stream
        img0 == CaptureInitial.image
        S1   == CaptureStopCamera(S, k0)
        S2   == IF img0 # 0 THEN [S1 EXCEPT !.c.revoked = @ \cup {img0}] ELSE S1
    IN  [S2 EXCEPT !.mounted = FALSE]

\* ----------------------------------------------- ImageCropper: handlers
\* handleConfirm up to canvas.toBlob
CropperHandleConfirm(S) == [S EXCEPT !.cr.processing = TRUE]

\* onConfirm(blob): handleCropConfirm of the component that mounted the cropper
CropperOnConfirm(S) ==
    IF S.component = "modal" THEN ModalCropConfirm(S) ELSE CaptureCropConfirm(S)

\* the toBlob callback of handleConfirm: onConfirm if a blob came, then
\* setIsProcessing(false)
CropperBlobReady(S, ok) ==
    [(IF ok THEN CropperOnConfirm(S) ELSE S) EXCEPT !.cr.processing = FALSE]

\* the same callback of an instance that was unmounted meanwhile
CropperOrphanBlobReady(S, ok) ==
    LET S1 == [S EXCEPT !.cr.orphans = @ - 1]
    IN  IF ok THEN CropperOnConfirm(S1) ELSE S1

\* ------------------------------------------------- camera page: actions
InitCamera ==
    /\ IdleStore
    /\ IdleGateway /\ IdleGallery /\ IdleEditor
    /\ component \in {"modal", "capture"}
    /\ mounted = TRUE
    /\ cam = CameraInitial
    /\ modal = ModalInitial
    /\ capture = CaptureInitial
    /\ cropper = CropperInitial

IsModal == component = "modal"
IsCapture == component = "capture"

\* the re-render of whichever component is on the page
Rerender(S0, S1) == IF S1.component = "capture" THEN CaptureRerender(S0, S1) ELSE S1

\* -- CameraModal: the user and the parent
M_open ==
    /\ IsModal /\ mounted /\ ~modal.isOpen
    /\ Becomes(ModalOpen(Page))

M_handleClose ==
    /\ IsModal /\ mounted /\ modal.isOpen
    /\ Becomes(ModalHandleClose(Page))

M_cancelEditing ==
    /\ IsModal /\ CropperMounted(Page)
    /\ Becomes(ModalCancelEditing(Page))

\* the Riprova button of the error panel
M_retry ==
    /\ IsModal /\ ModalVideoMounted(Page) /\ modal.error
    /\ Becomes(ModalStartCamera(Page))

M_capturePhoto ==
    /\ IsModal /\ ModalVideoMounted(Page)
    /\ Becomes(ModalCapturePhoto(Page))

M_unmount ==
    /\ IsModal /\ mounted
    /\ Becomes(ModalUnmountCleanup(Page))

\* -- CameraModal: asynchronous completions
M_streamAcquired ==
    /\ IsModal /\ modal.gumPending > 0
    /\ Becomes(ModalStreamAcquired(Page))

M_streamRefused ==
    /\ IsModal /\ modal.gumPending > 0
    /\ Becomes(ModalStreamRefused(Page))

M_playSettled ==
    /\ IsModal /\ modal.playPending > 0
    /\ \E ok \in BOOLEAN : Becomes(ModalPlaySettled(Page, ok))

M_readyTimeout ==
    /\ IsModal /\ modal.readyTimers > 0
    /\ Becomes(ModalReadyTimeout(Page))

M_videoPlaying ==
    /\ IsModal /\ ModalVideoMounted(Page)
    /\ modal.videoSrc # 0 /\ modal.videoSrc \in cam.live
    /\ Becomes(ModalVideoPlaying(Page))

M_blobReady ==
    /\ IsModal /\ modal.blobPending > 0
    /\ \E ok \in BOOLEAN : Becomes(ModalBlobReady(Page, ok))

M_uploadSettled ==
    /\ IsModal /\ modal.uploadPending > 0
    /\ \E outcome \in ModalUploadOutcomes : Becomes(ModalUploadSettled(Page, outcome))

M_closeTimeout ==
    /\ IsModal /\ modal.closeTimers > 0
    /\ Becomes(ModalCloseTimeout(Page))

\* -- CameraCapture: the user and the parent
C_open ==
    /\ IsCapture /\ mounted /\ ~capture.isOpen
    /\ Becomes(Rerender(Page, CaptureOpen(Page)))

C_handleClose ==
    /\ IsCapture /\ mounted /\ capture.isOpen
    /\ Becomes(Rerender(Page, CaptureHandleClose(Page)))

\* the shutter button is rendered in the camera step when not loading
C_capturePhoto ==
    /\ IsCapture /\ mounted /\ capture.isOpen
    /\ capture.step = "camera" /\ ~capture.isLoading
    /\ Becomes(Rerender(Page, CaptureCapturePhoto(Page)))

\* the three buttons of the final preview
PreviewShown == IsCapture /\ mounted /\ capture.isOpen
                /\ capture.step = "preview" /\ capture.image # 0

C_confirmPhoto ==
    /\ PreviewShown
    /\ Becomes(Rerender(Page, CaptureConfirmPhoto(Page)))

C_retakePhoto ==
    /\ PreviewShown
    /\ Becomes(Rerender(Page, CaptureRetakePhoto(Page)))

C_backToEditing ==
    /\ PreviewShown
    /\ Becomes(Rerender(Page, CaptureBackToEditing(Page)))

C_cancelEditing ==
    /\ IsCapture /\ CropperMounted(Page)
    /\ Becomes(Rerender(Page, CaptureCancelEditing(Page)))

\* the switch button is rendered while no image is held
C_switchCamera ==
    /\ IsCapture /\ mounted /\ capture.isOpen /\ capture.image = 0
    /\ Becomes(Rerender(Page, CaptureSwitchCamera(Page)))

C_unmount ==
    /\ IsCapture /\ mounted
    /\ Becomes(CaptureUnmountCleanup(Page))

\* -- CameraCapture: asynchronous completions
C_streamAcquired ==
    /\ IsCapture /\ capture.gumPending > 0
    /\ Becomes(Rerender(Page, CaptureStreamAcquired(Page)))

C_streamRefused ==
    /\ IsCapture /\ capture.gumPending > 0
    /\ Becomes(Rerender(Page, CaptureStreamRefused(Page)))

C_blobReady ==
    /\ IsCapture
    /\ \E k \in 0..MaxStreams, ok \in BOOLEAN :
          /\ capture.blobPending[k] > 0
          /\ Becomes(Rerender(Page, CaptureBlobReady(Page, k, ok)))

\* -- ImageCropper
Crop_handleConfirm ==
    /\ CropperMounted(Page) /\ ~cropper.processing
    /\ Becomes(CropperHandleConfirm(Page))

Crop_blobReady ==
    /\ cropper.processing
    /\ \E ok \in BOOLEAN : Becomes(Rerender(Page, CropperBlobReady(Page, ok)))

Crop_orphanBlobReady ==
    /\ cropper.orphans > 0
    /\ \E ok \in BOOLEAN : Becomes(Rerender(Page, CropperOrphanBlobReady(Page, ok)))

NextCamera ==
    \/ M_open \/ M_handleClose \/ M_cancelEditing \/ M_retry \/ M_capturePhoto
    \/ M_unmount \/ M_streamAcquired \/ M_streamRefused \/ M_playSettled
    \/ M_readyTimeout \/ M_videoPlaying \/ M_blobReady \/ M_uploadSettled
    \/ M_closeTimeout
    \/ C_open \/ C_handleClose \/ C_capturePhoto \/ C_confirmPhoto \/ C_retakePhoto
    \/ C_backToEditing \/ C_cancelEditing \/ C_switchCamera \/ C_unmount
    \/ C_streamAcquired \/ C_streamRefused \/ C_blobReady
    \/ Crop_handleConfirm \/ Crop_blobReady \/ Crop_orphanBlobReady

SpecCamera == InitCamera /\ [][NextCamera]_vars

\* CameraCapture on its own with streams without end, and every getUserMedia
\* promise settling sooner or later, resolved or rejected.
InitCapture ==
    /\ IdleStore
    /\ IdleGateway /\ IdleGallery /\ IdleEditor
    /\ component = "capture"
    /\ mounted = TRUE
    /\ cam = [CameraInitial EXCEPT !.reuse = TRUE]
    /\ modal = ModalInitial
    /\ capture = CaptureInitial
    /\ cropper = CropperInitial

\* what the user and the parent do to CameraCapture and to its editor
CaptureUserActs ==
    \/ C_open \/ C_handleClose \/ C_capturePhoto \/ C_confirmPhoto \/ C_retakePhoto
    \/ C_backToEditing \/ C_cancelEditing \/ C_switchCamera \/ C_unmount
    \/ Crop_handleConfirm

NextCapture ==
    \/ C_open \/ C_handleClose \/ C_capturePhoto \/ C_confirmPhoto \/ C_retakePhoto
    \/ C_backToEditing \/ C_cancelEditing \/ C_switchCamera \/ C_unmount
    \/ C_streamAcquired \/ C_streamRefused \/ C_blobReady
    \/ Crop_handleConfirm \/ Crop_blobReady \/ Crop_orphanBlobReady

SpecCapture ==
    /\ InitCapture /\ [][NextCapture]_vars
    /\ WF_vars(C_streamAcquired \/ C_streamRefused)

\* ------------------------------------------------ upload gateway: actions
\* file.type.startsWith('image/')
StartsWithImage(type) ==
    Len(type) >= 2 /\ SubSeq(type, 1, 2) = <<"image", "/">>

\* the local checks with the size test written `>=`: a file of exactly the
\* limit is refused
UploadValidateBelowLimit(file) ==
    IF ~file.given THEN "Nessun file fornito"
    ELSE IF ~file.typed THEN "Errore di rete"
    ELSE IF ~StartsWithImage(file.type) THEN "Solo immagini sono permesse"
    ELSE IF file.size >= MaxFileSize THEN "File troppo grande (max 10MB)"
    ELSE "send"

\* the local checks of uploadProductPhotoSecure, in the order of the code: the
\* error returned without a request, or "send". A file object without a type
\* makes file.type.startsWith throw, which the catch turns into 'Errore di rete'.
UploadValidate(file) ==
    IF ~file.given THEN "Nessun file fornito"
    ELSE IF ~file.typed THEN "Errore di rete"
    ELSE IF ~StartsWithImage(file.type) THEN "Solo immagini sono permesse"
    ELSE IF file.size > MaxFileSize THEN "File troppo grande (max 10MB)"
    ELSE "send"

\* the message of a non-OK response whose body carries no error text
GatewayFailureMessage(fn) ==
    CASE fn = "upload" -> "Errore upload"
      [] fn = "setPrimary" -> "Errore nell'impostazione foto primaria"
      [] fn = "delete" -> "Errore nell'eliminazione foto"

\* the call up to its first await: a local error is returned, or fetch is
\* called; setPrimaryPhotoSecure and deleteProductPhotoSecure have no local check
GatewayCalled(g) ==
    IF g.fn # "upload" \/ UploadValidate(g.file) = "send"
    THEN [g EXCEPT !.pc = "fetching", !.requests = @ + 1]
    ELSE [g EXCEPT !.pc = "returned", !.error = UploadValidate(g.file)]

GatewayCall ==
    /\ gateway.pc = "idle"
    /\ gateway' = GatewayCalled(gateway)
    /\ UNCHANGED <<nonGatewayVars, multiple>>

\* fetch resolved with a response, whatever its status
GatewayResponse(ok) ==
    /\ gateway.pc = "fetching"
    /\ gateway' = [gateway EXCEPT !.pc = "parsing", !.responseOk = ok]
    /\ UNCHANGED <<nonGatewayVars, multiple>>

\* fetch rejected: the catch returns 'Errore di rete'
GatewayNetworkFailure ==
    /\ gateway.pc = "fetching"
    /\ gateway' = [gateway EXCEPT !.pc = "returned", !.error = "Errore di rete"]
    /\ UNCHANGED <<nonGatewayVars, multiple>>

\* response.json() with no try around it: a body that does not parse leaves
\* the function as an exception
GatewayBodyUncaught(parsed) ==
    /\ gateway.pc = "parsing"
    /\ gateway' =
         IF ~parsed
         THEN [gateway EXCEPT !.pc = "threw"]
         ELSE IF ~gateway.responseOk
         THEN [gateway EXCEPT !.pc = "returned",
                              !.error = GatewayFailureMessage(gateway.fn)]
         ELSE [gateway EXCEPT !.pc = "returned", !.data = "descriptor"]
    /\ UNCHANGED <<nonGatewayVars, multiple>>

\* response.json() settled: a body that does not parse goes to the catch
GatewayBody(parsed) ==
    /\ gateway.pc = "parsing"
    /\ gateway' =
         IF ~parsed
         THEN [gateway EXCEPT !.pc = "returned", !.error = "Errore di rete"]
         ELSE IF ~gateway.responseOk
         THEN [gateway EXCEPT !.pc = "returned",
                              !.error = GatewayFailureMessage(gateway.fn)]
         ELSE [gateway EXCEPT !.pc = "returned", !.data = "descriptor"]
    /\ UNCHANGED <<nonGatewayVars, multiple>>

InitGateway ==
    /\ IdleStore /\ IdleCamera /\ IdleGallery /\ IdleEditor
    /\ multiple = MultipleInitial
    /\ gateway \in
         {[GatewayInitial EXCEPT !.file = f, !.productId = id, !.isFirst = first] :
            f \in UploadInputs, id \in 0..1, first \in BOOLEAN}
         \cup {[GatewayInitial EXCEPT !.fn = fn, !.productId = id] :
                 fn \in GatewayFunctions \ {"upload"}, id \in 0..1}

NextGateway ==
    \/ GatewayCall
    \/ \E ok \in BOOLEAN : GatewayResponse(ok)
    \/ GatewayNetworkFailure
    \/ \E parsed \in BOOLEAN : GatewayBody(parsed)

SpecGateway == InitGateway /\ [][NextGateway]_vars

\* the top of the for loop of uploadMultiplePhotos: past the last file the
\* results are returned; otherwise uploadProductPhotoSecure is called with
\* files[i] and isFirst = (i === 0), and runs up to its first await
MultipleLoop ==
    /\ multiple.pc = "loop"
    /\ IF multiple.i >= Len(multiple.files)
       THEN /\ multiple' = [multiple EXCEPT !.pc = "returned"]
            /\ UNCHANGED gateway
       ELSE /\ gateway' = GatewayCalled([GatewayInitial EXCEPT
                               !.file = multiple.files[multiple.i + 1],
                               !.productId = multiple.productId,
                               !.isFirst = (multiple.i = 0)])
            /\ multiple' = [multiple EXCEPT
                   !.pc = "awaiting",
                   !.calls = Append(@, [index |-> multiple.i,
                                        isFirst |-> gateway'.isFirst,
                                        file |-> gateway'.file,
                                        settled |-> Len(multiple.successes)
                                                      + Len(multiple.errors)])]
    /\ UNCHANGED nonGatewayVars

\* the loop body after the await, with a `break` where an error is recorded
MultipleSettledStopping(u, g) ==
    IF g.pc = "threw"
    THEN [u EXCEPT !.pc = "loop", !.i = Len(u.files),
                   !.errors = Append(@, [file |-> u.i, error |-> "thrown"])]
    ELSE IF g.error # "null"
    THEN [u EXCEPT !.pc = "loop", !.i = Len(u.files),
                   !.errors = Append(@, [file |-> u.i, error |-> g.error])]
    ELSE [u EXCEPT !.pc = "loop", !.i = @ + 1, !.successes = Append(@, g.data)]

\* the loop body after the await: the result's error, or an exception caught,
\* goes to errors with the file's name; the data of a success goes to
\* successes; then i++
MultipleSettled(u, g) ==
    IF g.pc = "threw"
    THEN [u EXCEPT !.pc = "loop", !.i = @ + 1,
                   !.errors = Append(@, [file |-> u.i, error |-> "thrown"])]
    ELSE IF g.error # "null"
    THEN [u EXCEPT !.pc = "loop", !.i = @ + 1,
                   !.errors = Append(@, [file |-> u.i, error |-> g.error])]
    ELSE [u EXCEPT !.pc = "loop", !.i = @ + 1, !.successes = Append(@, g.data)]

\* the awaited uploadProductPhotoSecure call has settled
MultipleUploadSettled ==
    /\ multiple.pc = "awaiting"
    /\ gateway.pc \in {"returned", "threw"}
    /\ multiple' = MultipleSettled(multiple, gateway)
    /\ UNCHANGED <<nonGatewayVars, gateway>>

\* uploadMultiplePhotos called with a list of up to MaxFiles File objects
InitMultiple ==
    /\ IdleStore /\ IdleCamera /\ IdleGallery /\ IdleEditor
    /\ gateway = GatewayInitial
    /\ \E n \in 0..MaxFiles : \E files \in [1..n -> MultipleFiles] : \E id \in 0..1 :
         multiple = [MultipleInitial EXCEPT !.pc = "loop", !.files = files,
                                            !.productId = id]

NextMultiple ==
    \/ MultipleLoop
    \/ \E ok \in BOOLEAN : GatewayResponse(ok)
    \/ GatewayNetworkFailure
    \/ \E parsed \in BOOLEAN : GatewayBody(parsed)
    \/ MultipleUploadSettled

SpecMultiple == InitMultiple /\ [][NextMultiple]_vars

\* ----------------------------------------------- gallery manager: handlers
\* how an upload request that was sent can end
UploadOutcomes == {"ok", "http", "network"}

\* getProductPhotos is called: one more query in flight, the latest one
ListQuery(g, awaited) ==
    LET earlier == [i \in 1..Len(g.lists) |-> [g.lists[i] EXCEPT !.latest = FALSE]]
    IN  [g EXCEPT !.loading = TRUE,
                  !.lists = Append(earlier, [rows |-> g.server, latest |-> TRUE,
                                             awaited |-> awaited]),
                  !.latestRows = -1]

\* loadPhotos up to its await of getProductPhotos
LoadPhotos(g) ==
    IF g.productId = 0 THEN g ELSE ListQuery(g, FALSE)

\* what query i can return: the rows the server had at some moment between
\* the call and the response
ListResults(g, i) == g.lists[i].rows .. g.server

\* loadPhotos after getProductPhotos of query i settled: the list replaces
\* photos unless an error came back; finally
ListApplied(g, i, ok, rows) ==
    LET g1 == [g EXCEPT !.lists = [j \in 1..(Len(@) - 1) |->
                                      IF j < i THEN @[j] ELSE @[j + 1]],
                        !.loading = FALSE]
    IN  IF ok
        THEN [g1 EXCEPT !.photos = rows,
                        !.latestRows = IF g.lists[i].latest THEN rows ELSE @]
        ELSE g1

\* the server stores one more row of the product
RowStored(g) == [g EXCEPT !.server = Min(@ + 1, MaxListed)]

\* a batch begins: the bookkeeping of the previous one is gone
BatchBegin(g, files, st) ==
    [g EXCEPT !.uploading = TRUE,
              !.batch = files,
              !.status = [i \in 1..Len(files) |-> st],
              !.requests = [i \in 1..Len(files) |-> 0],
              !.tempSaved = [i \in 1..Len(files) |-> 0],
              !.successCount = 0,
              !.errorCount = 0,
              !.successToast = -1,
              !.failureToast = -1,
              !.fileErrors = 0,
              !.notice = FALSE]

CountStatus(g, st) == Cardinality({i \in 1..Len(g.batch) : g.status[i] = st})

\* -- no productId: the uploads of the batch run side by side
\* Promise.all settles when no upload is in flight: the toast with the number
\* of non-null results, then setUploading(false)
TempJoin(g) ==
    IF \E i \in 1..Len(g.batch) : g.status[i] = "sent"
    THEN g
    ELSE [g EXCEPT !.pc = "idle",
                   !.uploading = FALSE,
                   !.successToast = IF CountStatus(g, "ok") > 0
                                    THEN CountStatus(g, "ok") ELSE -1]

\* the mapped async function of file i up to its await: the gateway returns a
\* local error (thrown, caught, one toast.error) or sends the request
TempFileStart(g, i) ==
    IF UploadValidate(GalleryFile(g.batch[i])) = "send"
    THEN [g EXCEPT !.status[i] = "sent", !.requests[i] = @ + 1]
    ELSE [g EXCEPT !.status[i] = "failed", !.fileErrors = @ + 1]

RECURSIVE TempMap(_, _)
TempMap(g, i) ==
    IF i > Len(g.batch) THEN g ELSE TempMap(TempFileStart(g, i), i + 1)

\* uploadPhotos without productId and with onTempPhotoSave
TempStart(g, files) ==
    TempJoin(TempMap([BatchBegin(g, files, "new") EXCEPT !.pc = "temp"], 1))

\* the mapped async function in which a failed upload also reaches the callback
TempFileSettledAlwaysSaving(g, i, outcome) ==
    IF outcome = "ok"
    THEN [g EXCEPT !.status[i] = "ok", !.tempSaved[i] = @ + 1]
    ELSE [g EXCEPT !.status[i] = "failed", !.tempSaved[i] = @ + 1,
                   !.fileErrors = @ + 1]

\* the mapped async function of file i after its upload settled
TempFileSettled(g, i, outcome) ==
    IF outcome = "ok"
    THEN [g EXCEPT !.status[i] = "ok", !.tempSaved[i] = @ + 1]
    ELSE [g EXCEPT !.status[i] = "failed", !.fileErrors = @ + 1]

TempSettle(g, i, outcome) == TempJoin(TempFileSettled(g, i, outcome))

\* -- with productId: the for loop
\* after the loop: the error count toast, the end of uploadPhotos
LoopFinish(g) ==
    [g EXCEPT !.failureToast = IF g.errorCount > 0 THEN g.errorCount ELSE -1,
              !.pc = "idle"]

\* after the loop: setUploading(false), the success toast and await loadPhotos()
LoopEnd(g) ==
    LET g1 == [g EXCEPT !.uploading = FALSE]
    IN  IF g1.successCount > 0
        THEN [ListQuery(g1, TRUE) EXCEPT !.successToast = g1.successCount,
                                         !.pc = "refresh"]
        ELSE LoopFinish(g1)

\* a loop that tries the file again after a transport failure
LoopFileFailedRetrying(g, message) ==
    IF message = "Errore di rete" /\ g.requests[g.idx] < 2
    THEN g
    ELSE [g EXCEPT !.status[g.idx] = "failed",
                   !.errorCount = @ + 1,
                   !.fileErrors = @ + 1,
                   !.idx = @ + 1]

\* a loop that a failing file ends
LoopFileFailedStopping(g, message) ==
    [g EXCEPT !.status[g.idx] = "failed",
              !.errorCount = @ + 1,
              !.fileErrors = @ + 1,
              !.apiStatus = IF message = "Errore di rete" THEN "error" ELSE @,
              !.idx = Len(g.batch) + 1]

\* a file of the loop failed: toast.error and errorCount++
LoopFileFailed(g, message) ==
    [g EXCEPT !.status[g.idx] = "failed",
              !.errorCount = @ + 1,
              !.fileErrors = @ + 1,
              !.apiStatus = IF message = "Errore di rete" THEN "error" ELSE @,
              !.idx = @ + 1]

\* the loop from file idx on, up to the next await
RECURSIVE LoopRun(_)
LoopRun(g) ==
    IF g.idx > Len(g.batch)
    THEN LoopEnd(g)
    ELSE LET f == GalleryFile(g.batch[g.idx])
         IN  IF ~StartsWithImage(f.type)
             THEN LoopRun(LoopFileFailed(g, "non è un'immagine valida"))
             ELSE IF f.size > MaxFileSize
             THEN LoopRun(LoopFileFailed(g, "troppo grande (max 10MB)"))
             ELSE IF UploadValidate(f) = "send"
             THEN [g EXCEPT !.status[g.idx] = "sent", !.requests[g.idx] = @ + 1]
             ELSE LoopRun(LoopFileFailed(g, UploadValidate(f)))

\* uploadPhotos with productId
LoopStart(g, files) ==
    LoopRun([BatchBegin(g, files, "new") EXCEPT !.pc = "loop", !.idx = 1])

\* the awaited upload of file idx settled
LoopSettle(g, outcome) ==
    IF outcome = "ok"
    THEN LoopRun(RowStored([g EXCEPT !.status[g.idx] = "ok",
                                     !.successCount = @ + 1,
                                     !.idx = @ + 1]))
    ELSE LoopRun(LoopFileFailed(g, IF outcome = "network"
                                   THEN "Errore di rete" ELSE "Errore upload"))

\* uploadPhotos
UploadPhotos(g, files) ==
    IF g.productId = 0
    THEN IF g.hasTempCallback
         THEN TempStart(g, files)
         ELSE [g EXCEPT !.notice = TRUE]
    ELSE LoopStart(g, files)

\* -- the CameraModal of the manager
\* CameraModal.handleCropConfirm up to its await: the gateway refuses the file
\* (caught, toast) or sends it
CameraConfirm(g, kind) ==
    LET g1 == [g EXCEPT !.camStarted = @ + 1]
    IN  IF UploadValidate(GalleryFile(kind)) = "send"
        THEN [g1 EXCEPT !.camUploads = @ + 1]
        ELSE g1

\* onPhotoSaved of the manager: loadPhotos() and a toast
OnPhotoSaved(g) == LoadPhotos([g EXCEPT !.savedCalls = @ + 1])

\* a save that puts the new descriptor into photos itself and asks for no list
CameraSettledSplicing(g, outcome) ==
    LET g1 == [g EXCEPT !.camUploads = @ - 1]
    IN  IF outcome = "ok"
        THEN [RowStored(g1) EXCEPT !.camStored = @ + 1,
                                   !.savedCalls = @ + 1,
                                   !.photos = Min(@ + 1, MaxListed)]
        ELSE g1

\* handleCropConfirm after the upload settled: result.data && !result.error
\* calls onPhotoSaved(result.data); everything else is caught
CameraSettled(g, outcome) ==
    LET g1 == [g EXCEPT !.camUploads = @ - 1]
    IN  IF outcome = "ok"
        THEN OnPhotoSaved(RowStored([g1 EXCEPT !.camStored = @ + 1]))
        ELSE g1

\* ------------------------------------------------ gallery manager: actions
G_uploadPhotos ==
    /\ gallery.pc = "idle" /\ ~gallery.uploading /\ gallery.apiStatus # "error"
    /\ \E files \in Batches : gallery' = UploadPhotos(gallery, files)
    /\ UNCHANGED <<storeVars, camVars, gateway, multiple, editor>>

G_tempUploadSettled ==
    /\ gallery.pc = "temp"
    /\ \E i \in 1..Len(gallery.batch), outcome \in UploadOutcomes :
          /\ gallery.status[i] = "sent"
          /\ gallery' = TempSettle(gallery, i, outcome)
    /\ UNCHANGED <<storeVars, camVars, gateway, multiple, editor>>

G_loopUploadSettled ==
    /\ gallery.pc = "loop"
    /\ \E outcome \in UploadOutcomes : gallery' = LoopSettle(gallery, outcome)
    /\ UNCHANGED <<storeVars, camVars, gateway, multiple, editor>>

\* the loadPhotos that uploadPhotos awaits settled
G_refreshSettled ==
    /\ gallery.pc = "refresh"
    /\ \E i \in 1..Len(gallery.lists), ok \in BOOLEAN :
          /\ gallery.lists[i].awaited
          /\ \E rows \in ListResults(gallery, i) :
                gallery' = LoopFinish(ListApplied(gallery, i, ok, rows))
    /\ UNCHANGED <<storeVars, camVars, gateway, multiple, editor>>

\* a loadPhotos of the mount effect or of onPhotoSaved settled
G_listSettled ==
    /\ \E i \in 1..Len(gallery.lists), ok \in BOOLEAN :
          /\ ~gallery.lists[i].awaited
          /\ \E rows \in ListResults(gallery, i) :
                gallery' = ListApplied(gallery, i, ok, rows)
    /\ UNCHANGED <<storeVars, camVars, gateway, multiple, editor>>

\* Confirm in the crop editor of the manager's CameraModal (the Fotocamera
\* button needs a productId)
G_cameraConfirm ==
    /\ gallery.productId # 0
    /\ gallery.camStarted < MaxCamUploads
    /\ \E kind \in {"good", "tooLarge"} : gallery' = CameraConfirm(gallery, kind)
    /\ UNCHANGED <<storeVars, camVars, gateway, multiple, editor>>

G_cameraUploadSettled ==
    /\ gallery.camUploads > 0
    /\ \E outcome \in UploadOutcomes : gallery' = CameraSettled(gallery, outcome)
    /\ UNCHANGED <<storeVars, camVars, gateway, multiple, editor>>

\* the manager mounted: its effects ran, loadPhotos() of the productId effect
\* is in flight when there is a productId. A new product has no rows and may
\* come with or without onTempPhotoSave, which only that case looks at.
InitGallery ==
    /\ IdleStore /\ IdleCamera /\ IdleGateway /\ IdleEditor
    /\ gallery \in
         {[GalleryInitial EXCEPT !.hasTempCallback = cb] : cb \in BOOLEAN}
         \cup {LoadPhotos([GalleryInitial EXCEPT !.productId = 1,
                                                 !.hasTempCallback = TRUE,
                                                 !.server = n]) : n \in 0..MaxListed}

NextGallery ==
    \/ G_uploadPhotos \/ G_tempUploadSettled \/ G_loopUploadSettled
    \/ G_refreshSettled \/ G_listSettled
    \/ G_cameraConfirm \/ G_cameraUploadSettled

SpecGallery == InitGallery /\ [][NextGallery]_vars

\* ------------------------------------------------- crop editor: handlers
\* canvas.width = finalWidth; canvas.height = finalHeight, after
\*   if (finalWidth / finalHeight > aspectRatio) finalWidth = finalHeight * aspectRatio
\*   else finalHeight = finalWidth / aspectRatio
\* with aspectRatio = area.width / area.height and finalWidth = wNum / den,
\* finalHeight = hNum / den before the test. The assignment to a canvas
\* dimension drops the fraction. Exact arithmetic stands for the doubles.
CanvasSizeStretching(area, wNum, hNum, den) ==
    [width |-> wNum \div den, height |-> hNum \div den]

\* the canvas as the aspect-ratio test sizes it when it enlarges the dimension
\* that is too small for the region instead of reducing the other
CanvasSizeCovering(area, wNum, hNum, den) ==
    IF wNum * area.height > hNum * area.width
    THEN [width |-> wNum \div den,
          height |-> (wNum * area.height) \div (den * area.width)]
    ELSE [width |-> (hNum * area.width) \div (den * area.height),
          height |-> hNum \div den]

CanvasSize(area, wNum, hNum, den) ==
    IF wNum * area.height > hNum * area.width
    THEN [width |-> (hNum * area.width) \div (den * area.height),
          height |-> hNum \div den]
    ELSE [width |-> wNum \div den,
          height |-> (wNum * area.height) \div (den * area.width)]

\* updatePreview up to canvas.toBlob: it sizes the preview canvas from
\* outputSize alone
UpdatePreview(e) ==
    IF ~e.imageLoaded \/ e.cropArea.width = 0 \/ e.cropArea.height = 0
    THEN e
    ELSE LET size == CanvasSize(e.cropArea, e.outputSize.width, e.outputSize.height, 1)
             earlier == [i \in 1..Len(e.previewEncodes) |->
                            [canvas |-> e.previewEncodes[i].canvas, latest |-> FALSE]]
         IN  [e EXCEPT !.previewCanvas = size,
                       !.previewEncodes = Append(earlier, [canvas |-> size, latest |-> TRUE]),
                       !.previewLatest = FALSE]

\* the sequence s without its i-th element
Without(s, i) == [j \in 1..(Len(s) - 1) |-> IF j < i THEN s[j] ELSE s[j + 1]]

\* the toBlob callback of the i-th updatePreview in flight: setPreviewBlob(blob),
\* the blob being null for a bitmap without pixels; a callback replaces
\* whatever blob is displayed
PreviewEncoded(e, i) ==
    LET e1 == [e EXCEPT !.previewEncodes = Without(@, i)]
        encode == e.previewEncodes[i]
    IN  IF e.mounted
        THEN [e1 EXCEPT !.previewBlob = (encode.canvas.width > 0
                                         /\ encode.canvas.height > 0),
                        !.previewLatest = encode.latest]
        ELSE e1

\* img.onload of the image-load effect with the inset of one margin on each
\* side taken from the width only
ImageOnLoadInsetWidthOnly(e) ==
    UpdatePreview(
        [e EXCEPT !.loadPending = FALSE,
                  !.imageSize = e.source,
                  !.cropArea = [x |-> e.source.width,
                                y |-> 0,
                                width |-> e.source.width * 8,
                                height |-> Px(e.source.height)],
                  !.canvas = e.source,
                  !.imageLoaded = TRUE])

\* img.onload of the image-load effect selecting the whole image
ImageOnLoadWithoutInset(e) ==
    UpdatePreview(
        [e EXCEPT !.loadPending = FALSE,
                  !.imageSize = e.source,
                  !.cropArea = [x |-> 0, y |-> 0,
                                width |-> Px(e.source.width),
                                height |-> Px(e.source.height)],
                  !.canvas = e.source,
                  !.imageLoaded = TRUE])

\* img.onload of the image-load effect, then the preview effect: margin = 0.1,
\* x = w * margin, width = w * (1 - 2 * margin), likewise y and height; in
\* tenths of a pixel these are w and 8 * w
ImageOnLoad(e) ==
    UpdatePreview(
        [e EXCEPT !.loadPending = FALSE,
                  !.imageSize = e.source,
                  !.cropArea = [x |-> e.source.width,
                                y |-> e.source.height,
                                width |-> e.source.width * 8,
                                height |-> e.source.height * 8],
                  !.canvas = e.source,
                  !.imageLoaded = TRUE])

\* handleMouseDown at canvas position p, then the preview effect
HandleMouseDown(e, p) ==
    UpdatePreview(
        [e EXCEPT !.isDragging = TRUE,
                  !.dragStart = p,
                  !.cropArea = [x |-> p.x, y |-> p.y, width |-> 0, height |-> 0]])

Abs(n) == IF n < 0 THEN -n ELSE n

\* handleMouseMove keeping the anchor as the corner of the region
HandleMouseMoveFromAnchor(e, p) ==
    IF ~e.isDragging
    THEN e
    ELSE UpdatePreview(
             [e EXCEPT !.cropArea = [x |-> e.dragStart.x,
                                     y |-> e.dragStart.y,
                                     width |-> p.x - e.dragStart.x,
                                     height |-> p.y - e.dragStart.y]])

\* handleMouseMove without its test of isDragging
HandleMouseMoveUnguarded(e, p) ==
    UpdatePreview(
        [e EXCEPT !.cropArea = [x |-> Min(p.x, e.dragStart.x),
                                y |-> Min(p.y, e.dragStart.y),
                                width |-> Abs(p.x - e.dragStart.x),
                                height |-> Abs(p.y - e.dragStart.y)]])

\* handleMouseMove at canvas position p, then the preview effect
HandleMouseMove(e, p) ==
    IF ~e.isDragging
    THEN e
    ELSE UpdatePreview(
             [e EXCEPT !.cropArea = [x |-> Min(p.x, e.dragStart.x),
                                     y |-> Min(p.y, e.dragStart.y),
                                     width |-> Abs(p.x - e.dragStart.x),
                                     height |-> Abs(p.y - e.dragStart.y)]])

\* handleMouseUp, also bound to onMouseLeave
HandleMouseUp(e) == [e EXCEPT !.isDragging = FALSE]

\* onChange of the width field: parseInt(e.target.value) || 800
SetOutputWidth(e, typed) ==
    UpdatePreview([e EXCEPT !.outputSize.width = IF typed = 0 THEN 800 ELSE typed])

\* onChange of the height field: parseInt(e.target.value) || 600
SetOutputHeight(e, typed) ==
    UpdatePreview([e EXCEPT !.outputSize.height = IF typed = 0 THEN 600 ELSE typed])

\* onChange of the scale slider; the preview effect runs when the value changed
SetScale(e, tenths) ==
    IF tenths = e.scale THEN e ELSE UpdatePreview([e EXCEPT !.scale = tenths])

\* onChange of the quality slider
SetQuality(e, tenths) ==
    IF tenths = e.quality THEN e ELSE UpdatePreview([e EXCEPT !.quality = tenths])

\* handleConfirm without its first test
HandleConfirmUnguarded(e) ==
    [e EXCEPT !.isProcessing = TRUE,
              !.confirms = @ + 1,
              !.confirmPending = TRUE,
              !.converting =
                  IF e.cropArea.width = 0 \/ e.cropArea.height = 0
                  THEN [width |-> (e.outputSize.width * e.scale) \div 10,
                        height |-> (e.outputSize.height * e.scale) \div 10]
                  ELSE CanvasSize(e.cropArea, e.outputSize.width * e.scale,
                                  e.outputSize.height * e.scale, 10)]

\* handleConfirm up to canvas.toBlob: finalWidth = outputSize.width * scale,
\* finalHeight = outputSize.height * scale, then the aspect-ratio test
HandleConfirm(e) ==
    IF ~e.imageLoaded \/ e.cropArea.width = 0 \/ e.cropArea.height = 0
    THEN [e EXCEPT !.toasts = @ + 1]
    ELSE [e EXCEPT !.isProcessing = TRUE,
                   !.confirms = @ + 1,
                   !.confirmPending = TRUE,
                   !.converting = CanvasSize(e.cropArea, e.outputSize.width * e.scale,
                                             e.outputSize.height * e.scale, 10)]

\* The parent removes the editor: its state and its canvases are gone; the
\* toBlob callbacks in flight and what the parent and the toaster received stay.
Removed(e) ==
    [EditorInitial EXCEPT !.source = e.source,
                          !.previewEncodes = e.previewEncodes,
                          !.confirmPending = e.confirmPending,
                          !.converting = e.converting,
                          !.confirms = e.confirms,
                          !.toasts = e.toasts,
                          !.onConfirmCalls = e.onConfirmCalls,
                          !.edited = e.edited,
                          !.onCancelCalls = e.onCancelCalls]

\* onConfirm(blob) as CameraCapture binds it: handleCropConfirm takes the blob
\* and leaves the editing step, which removes the editor
OnConfirm(e, blob) ==
    Removed([e EXCEPT !.onConfirmCalls = @ + 1, !.edited = blob])

\* the toBlob callback of handleConfirm: if (blob) onConfirm(blob);
\* setIsProcessing(false)
ConfirmEncoded(e, ok) ==
    LET e1 == [e EXCEPT !.confirmPending = FALSE, !.converting = NoSize]
    IN  IF ok THEN OnConfirm(e1, e.converting)
        ELSE IF e.mounted THEN [e1 EXCEPT !.isProcessing = FALSE]
        ELSE e1

\* the two Annulla buttons: onCancel, after which the parent removes the editor
OnCancel(e) == Removed([e EXCEPT !.onCancelCalls = @ + 1])

\* -------------------------------------------------- crop editor: actions
\* the positions of a pointer over the canvas
PointerPositions(e) ==
    {p \in PointerPoints : p.x <= Px(e.canvas.width) /\ p.y <= Px(e.canvas.height)}

\* the editor after a handler; the counters stay within the model's bounds
EditorBecomes(e) ==
    /\ Len(e.previewEncodes) <= MaxEncodes
    /\ e.confirms <= MaxConfirms
    /\ e.toasts <= MaxToasts
    /\ editor' = e
    /\ UNCHANGED nonEditorVars

E_imageLoaded ==
    /\ editor.mounted /\ editor.loadPending
    /\ EditorBecomes(ImageOnLoad(editor))

E_mouseDown ==
    /\ editor.mounted
    /\ \E p \in PointerPositions(editor) : EditorBecomes(HandleMouseDown(editor, p))

E_mouseMove ==
    /\ editor.mounted
    /\ \E p \in PointerPositions(editor) : EditorBecomes(HandleMouseMove(editor, p))

E_mouseUp ==
    /\ editor.mounted
    /\ EditorBecomes(HandleMouseUp(editor))

E_setOutputWidth ==
    /\ editor.mounted
    /\ \E typed \in TypedSizes : EditorBecomes(SetOutputWidth(editor, typed))

E_setOutputHeight ==
    /\ editor.mounted
    /\ \E typed \in TypedSizes : EditorBecomes(SetOutputHeight(editor, typed))

E_setScale ==
    /\ editor.mounted
    /\ \E tenths \in ScaleTenths : EditorBecomes(SetScale(editor, tenths))

E_setQuality ==
    /\ editor.mounted
    /\ \E tenths \in QualityTenths : EditorBecomes(SetQuality(editor, tenths))

\* the Conferma button: disabled={isProcessing || !cropArea.width}
E_handleConfirm ==
    /\ editor.mounted /\ ~editor.isProcessing /\ editor.cropArea.width # 0
    /\ EditorBecomes(HandleConfirm(editor))

E_cancel ==
    /\ editor.mounted
    /\ EditorBecomes(OnCancel(editor))

E_previewEncoded ==
    /\ \E i \in 1..Len(editor.previewEncodes) : EditorBecomes(PreviewEncoded(editor, i))

\* a canvas without pixels gives the callback null
E_confirmEncoded ==
    /\ editor.confirmPending
    /\ \E ok \in BOOLEAN :
          /\ ok => editor.converting.width > 0 /\ editor.converting.height > 0
          /\ EditorBecomes(ConfirmEncoded(editor, ok))

InitEditor ==
    /\ IdleStore /\ IdleCamera /\ IdleGateway /\ IdleGallery
    /\ editor \in {[EditorInitial EXCEPT !.mounted = TRUE,
                                         !.source = size,
                                         !.loadPending = TRUE] : size \in ImageSizes}

NextEditor ==
    \/ E_imageLoaded \/ E_mouseDown \/ E_mouseMove \/ E_mouseUp
    \/ E_setOutputWidth \/ E_setOutputHeight \/ E_setScale \/ E_setQuality
    \/ E_handleConfirm \/ E_cancel \/ E_previewEncoded \/ E_confirmEncoded

SpecEditor == InitEditor /\ [][NextEditor]_vars

\* The preview pipeline on its own, with up to MaxInFlight encodes in flight:
\* the load, changes of the quality slider and of the width and height
\* fields, and the toBlob callbacks in any order.
PreviewBecomes(e) ==
    /\ Len(e.previewEncodes) <= MaxInFlight
    /\ editor' = e
    /\ UNCHANGED nonEditorVars

P_setQuality ==
    /\ editor.mounted
    /\ \E tenths \in QualityTenths : PreviewBecomes(SetQuality(editor, tenths))

P_setOutputWidth ==
    /\ editor.mounted
    /\ \E typed \in TypedSizes : PreviewBecomes(SetOutputWidth(editor, typed))

P_setOutputHeight ==
    /\ editor.mounted
    /\ \E typed \in TypedSizes : PreviewBecomes(SetOutputHeight(editor, typed))

P_previewEncoded ==
    /\ \E i \in 1..Len(editor.previewEncodes) : PreviewBecomes(PreviewEncoded(editor, i))

NextPreview ==
    \/ E_imageLoaded \/ P_setQuality \/ P_setOutputWidth \/ P_setOutputHeight
    \/ P_previewEncoded

SpecPreview == InitEditor /\ [][NextPreview]_vars

\* The image load and the pointer events on their own, for the frame of
\* ImageSizes and for one smaller than the canvas is before the load.
DraggedSizes == ImageSizes \cup {[width |-> 160, height |-> 120]}

InitDrag ==
    /\ IdleStore /\ IdleCamera /\ IdleGateway /\ IdleGallery
    /\ editor \in {[EditorInitial EXCEPT !.mounted = TRUE,
                                         !.source = size,
                                         !.loadPending = TRUE] : size \in DraggedSizes}

NextDrag ==
    \/ E_imageLoaded \/ E_mouseDown \/ E_mouseMove \/ E_mouseUp \/ E_previewEncoded

SpecDrag == InitDrag /\ [][NextDrag]_vars

\* The image-load effect on its own, over every image of up to MaxSide pixels
\* a side.
LoadedSizes == {[width |-> w, height |-> h] : w \in 1..MaxSide, h \in 1..MaxSide}

InitLoad ==
    /\ IdleStore /\ IdleCamera /\ IdleGateway /\ IdleGallery
    /\ editor \in {[EditorInitial EXCEPT !.mounted = TRUE,
                                         !.source = size,
                                         !.loadPending = TRUE] : size \in LoadedSizes}

NextLoad == E_imageLoaded

SpecLoad == InitLoad /\ [][NextLoad]_vars

\* ------------------------------------------------ upload gateway: claims
\* C11's condition in the claim's words: a file is given, its MIME type is an
\* image type, and its size is at most 10 MiB, the boundary included
C11_Acceptable(file) ==
    /\ file.given
    /\ file.typed /\ Len(file.type) >= 2 /\ file.type[1] = "image" /\ file.type[2] = "/"
    /\ file.size <= 10 * 1024 * 1024

\* C11: a call issues a network request if and only if the file is given, is an
\* image and is at most 10 MiB; in every other case it has returned
\* {data: null, error} with no request made.
C11_RequestIffValidFile ==
    (gateway.fn = "upload" /\ gateway.pc # "idle") =>
        /\ gateway.requests > 0 <=> C11_Acceptable(gateway.file)
        /\ ~C11_Acceptable(gateway.file) =>
              /\ gateway.pc = "returned"
              /\ gateway.data = "null" /\ gateway.error # "null"
              /\ gateway.requests = 0

\* C11's cases: a 12 MiB image refused with no request, and an image of
\* exactly 10 MiB sent
C11_TooLargeRefused ==
    /\ gateway.pc = "returned"
    /\ gateway.file.given /\ gateway.file.type = <<"image", "/", "jpeg">>
    /\ gateway.file.size = 12 * 1024 * 1024
    /\ gateway.requests = 0 /\ gateway.error = "File troppo grande (max 10MB)"

\* C37: uploadProductPhotoSecure, setPrimaryPhotoSecure and
\* deleteProductPhotoSecure never leave by an exception: whichever way a call
\* ends, it has returned; a call that ends on a local check, on a rejected
\* fetch or on a non-OK response returns data = null with an error message;
\* every value returned has either data = null and an error message, or, after
\* an OK response, error = null.
C37_FailuresAreReturned ==
    [][(gateway.pc # gateway'.pc /\ gateway'.pc \in {"returned", "threw"}) =>
         /\ gateway'.pc = "returned"
         /\ \/ gateway'.data = "null" /\ gateway'.error # "null"
            \/ gateway'.error = "null" /\ gateway.pc = "parsing" /\ gateway.responseOk
         /\ (gateway.pc \in {"idle", "fetching"} \/ ~gateway.responseOk) =>
               gateway'.error # "null"]_vars

\* C37's case: deleteProductPhotoSecure received an OK response and returned
\* 'Errore di rete', which only an unparsable body produces
C37_UnparsableBodyReturned ==
    /\ gateway.fn = "delete" /\ gateway.pc = "returned"
    /\ gateway.responseOk /\ gateway.requests = 1
    /\ gateway.data = "null" /\ gateway.error = "Errore di rete"

\* C38: uploadMultiplePhotos calls uploadProductPhotoSecure for the files in
\* index order, each call made only when the results of all earlier files are
\* recorded, with isFirst = true for index 0 and false for every other index;
\* it never leaves by an exception; and when it returns, every file has been
\* uploaded, failures before it or not, and the successes and the errors
\* together number the files.
C38_EveryFileInOrder ==
    /\ multiple.pc # "threw"
    /\ \A k \in 1..Len(multiple.calls) :
          /\ multiple.calls[k].index = k - 1
          /\ multiple.calls[k].file = multiple.files[k]
          /\ multiple.calls[k].isFirst = (k = 1)
          /\ multiple.calls[k].settled = k - 1
    /\ multiple.pc = "returned" =>
          /\ Len(multiple.calls) = Len(multiple.files)
          /\ Len(multiple.successes) + Len(multiple.errors) = Len(multiple.files)

\* C38's case: three files, the first refused by the size check and the
\* second failing on the network, the third stored
C38_StoredAfterTwoFailures ==
    /\ multiple.pc = "returned" /\ Len(multiple.files) = 3
    /\ multiple.errors = <<[file |-> 0, error |-> "File troppo grande (max 10MB)"],
                           [file |-> 1, error |-> "Errore di rete"]>>
    /\ multiple.successes = <<"descriptor">>

\* ----------------------------------------------- gallery manager: claims
\* the batch runs in the branch without productId, with onTempPhotoSave
TempBranch == gallery.productId = 0 /\ gallery.hasTempCallback

\* files of the current batch whose status changes in the step
Settling == {i \in 1..Len(gallery.batch) : gallery'.status[i] # gallery.status[i]}

\* C12: without productId and with the callback, the step that starts the
\* batch sends the request of every acceptable file at once; the step that
\* settles one upload leaves its siblings as they are; and in every state
\* onTempPhotoSave has been called once for each file that succeeded and never
\* for a file that failed or is in flight.
C12_TempUploadsSideBySide ==
    [][TempBranch =>
         /\ (gallery.pc = "idle" /\ gallery' # gallery) =>
               \A i \in 1..Len(gallery'.batch) :
                   gallery'.requests[i] =
                       IF C11_Acceptable(GalleryFile(gallery'.batch[i])) THEN 1 ELSE 0
         /\ gallery.pc = "temp" =>
               /\ gallery'.batch = gallery.batch
               /\ gallery'.requests = gallery.requests
               /\ Cardinality(Settling) = 1
               /\ \A i \in Settling : gallery.status[i] = "sent"
         /\ \A i \in 1..Len(gallery'.batch) :
               gallery'.tempSaved[i] = IF gallery'.status[i] = "ok" THEN 1 ELSE 0]_vars

\* C12's case: three files, the second refused by the local checks, the other
\* two uploaded and each handed to onTempPhotoSave once
C12_TwoOfThreeSaved ==
    /\ TempBranch /\ gallery.pc = "idle" /\ ~gallery.uploading
    /\ Len(gallery.batch) = 3 /\ gallery.batch[2] = "tooLarge"
    /\ gallery.status = <<"ok", "failed", "ok">>
    /\ gallery.tempSaved = <<1, 0, 1>>
    /\ gallery.successToast = 2 /\ gallery.fileErrors = 1

RECURSIVE SumSeq(_, _)
SumSeq(q, n) == IF n = 0 THEN 0 ELSE q[n] + SumSeq(q, n - 1)

\* C13: no file of a batch is sent more than once, a transport failure
\* included, so a batch of N files issues at most N upload requests.
C13_AtMostOneRequestPerFile ==
    /\ \A i \in 1..Len(gallery.batch) : gallery.requests[i] <= 1
    /\ SumSeq(gallery.requests, Len(gallery.batch)) <= Len(gallery.batch)

\* C13's case: a batch with productId ended after an upload failed in
\* transport, the file sent once
C13_TransportFailureNotResent ==
    /\ gallery.productId # 0 /\ gallery.pc = "idle"
    /\ gallery.apiStatus = "error"
    /\ \E i \in 1..Len(gallery.batch) :
          gallery.status[i] = "failed" /\ gallery.requests[i] = 1

\* C14: when a batch has ended with s > 0 successes and f > 0 failures, an
\* aggregate success notification with s and an aggregate failure notification
\* with f have been issued, with and without productId.
C14_BothCountsReported ==
    (/\ gallery.pc = "idle" /\ gallery.batch # <<>>
     /\ CountStatus(gallery, "ok") > 0
     /\ CountStatus(gallery, "failed") > 0)
    => /\ gallery.successToast = CountStatus(gallery, "ok")
       /\ gallery.failureToast = CountStatus(gallery, "failed")

\* C15: the step in which a camera upload returns a descriptor calls
\* onPhotoSaved once and issues one getProductPhotos query; photos changes only
\* in a step in which a list query settles, and then to the list's result.
C15_SaveRequeriesGallery ==
    [][/\ gallery'.camStored # gallery.camStored =>
             /\ gallery'.camStored = gallery.camStored + 1
             /\ gallery'.savedCalls = gallery.savedCalls + 1
             /\ Len(gallery'.lists) = Len(gallery.lists) + 1
       /\ gallery'.savedCalls # gallery.savedCalls =>
             gallery'.camStored = gallery.camStored + 1
       /\ gallery'.photos # gallery.photos =>
             /\ Len(gallery'.lists) = Len(gallery.lists) - 1
             /\ \E i \in 1..Len(gallery.lists) :
                   gallery'.photos \in ListResults(gallery, i)]_vars

\* C15's case: a camera save was stored, reported once, and the list query it
\* started has replaced photos
C15_SavedAndRefreshed ==
    /\ gallery.camStored = 1 /\ gallery.savedCalls = 1
    /\ gallery.camUploads = 0 /\ gallery.lists = <<>>
    /\ gallery.photos = gallery.server /\ gallery.photos > 0


\* --------------------------------------------------- crop editor: claims
ZeroRegion(e) == e.cropArea.width = 0 \/ e.cropArea.height = 0

\* C18: confirm with a region whose width or height is zero is refused: in
\* every reachable state with such a region handleConfirm only notifies
\* (onConfirm not called, no conversion started, region, isProcessing and the
\* mounted editor unchanged); no step starts a conversion from such a region,
\* and onConfirm is only ever called with the image of a conversion.
C18_ZeroRegionConfirmRefused ==
    [][/\ ZeroRegion(editor) =>
             \E e \in {HandleConfirm(editor)} :
                 /\ e.toasts = editor.toasts + 1
                 /\ e.onConfirmCalls = editor.onConfirmCalls
                 /\ e.edited = editor.edited
                 /\ e.confirmPending = editor.confirmPending
                 /\ e.converting = editor.converting
                 /\ e.isProcessing = editor.isProcessing
                 /\ e.cropArea = editor.cropArea
                 /\ e.mounted = editor.mounted
       /\ (editor'.confirms > editor.confirms) => ~ZeroRegion(editor)
       /\ (editor'.onConfirmCalls > editor.onConfirmCalls) =>
             /\ editor.confirmPending
             /\ editor'.edited.width > 0 /\ editor'.edited.height > 0]_vars

\* C18's case: a drag along a horizontal line left a region of height zero,
\* Conferma was pressed and only the notification came
C18_RefusedAfterFlatDrag ==
    /\ editor.mounted /\ editor.imageLoaded
    /\ editor.cropArea.width > 0 /\ editor.cropArea.height = 0
    /\ editor.toasts = 1
    /\ editor.confirms = 0 /\ editor.onConfirmCalls = 0 /\ ~editor.isProcessing

\* (W, H) has the ratio of the region up to one pixel: some w in [W, W + 1] and
\* h in [H, H + 1] have w / h = area.width / area.height
RatioWithinPixel(size, area) ==
    /\ size.width * area.height <= (size.height + 1) * area.width
    /\ size.height * area.width <= (size.width + 1) * area.height

\* C19: for every region with width > 0 and height > 0 and every output size
\* and scale, the pixel dimensions of the preview canvas and of the confirmed
\* image have the region's aspect ratio up to one pixel in W and in H.
C19_RenderKeepsRegionRatio ==
    [][/\ (editor'.imageLoaded /\ ~ZeroRegion(editor')) =>
             RatioWithinPixel(editor'.previewCanvas, editor'.cropArea)
       /\ (editor'.confirms > editor.confirms) =>
             RatioWithinPixel(editor'.converting, editor.cropArea)
       /\ (editor'.onConfirmCalls > editor.onConfirmCalls) =>
             editor'.edited = editor.converting]_vars

\* C19's case: a region of 100 x 720 at target 800 x 600 and scale 1, where
\* the width 83.33 is cut to 83 in the preview and in the image being confirmed
C19_NarrowRegionRounded ==
    /\ editor.mounted /\ editor.imageLoaded
    /\ editor.cropArea.width = Px(100) /\ editor.cropArea.height = Px(720)
    /\ editor.outputSize = [width |-> 800, height |-> 600] /\ editor.scale = 10
    /\ editor.previewCanvas = [width |-> 83, height |-> 600]
    /\ editor.confirmPending
    /\ editor.converting = [width |-> 83, height |-> 600]

\* the 1280 x 720 frame with the region its load gave, target 800 x 600, scale 1
DefaultScenario ==
    /\ editor.mounted /\ editor.imageLoaded
    /\ editor.imageSize = [width |-> 1280, height |-> 720]
    /\ editor.cropArea = [x |-> Px(128), y |-> Px(72), width |-> Px(1024), height |-> Px(576)]
    /\ editor.outputSize = [width |-> 800, height |-> 600]
    /\ editor.scale = 10

\* C20 (as the code has it): a 1280 x 720 frame loads with the region
\* 1024 x 576 at (128, 72); confirming it at target 800 x 600 with scale 1
\* yields an image of 800 x 450, whose ratio 16/9 is the region's.
C20_DefaultRegionYields800x450 ==
    [][/\ (~editor.imageLoaded /\ editor'.imageLoaded
           /\ editor.source = [width |-> 1280, height |-> 720]) =>
             editor'.cropArea = [x |-> Px(128), y |-> Px(72), width |-> Px(1024), height |-> Px(576)]
       /\ (DefaultScenario /\ editor'.confirms > editor.confirms) =>
             /\ editor'.converting = [width |-> 800, height |-> 450]
             /\ editor'.converting.width * editor.cropArea.height
                    = editor'.converting.height * editor.cropArea.width
       /\ (editor'.onConfirmCalls > editor.onConfirmCalls) =>
             editor'.edited.width * editor.converting.height
                 = editor'.edited.height * editor.converting.width]_vars

\* C20's case: the default region of the 1280 x 720 frame being confirmed
C20_DefaultRegionConfirmed ==
    /\ DefaultScenario
    /\ ~editor.isDragging /\ editor.dragStart = [x |-> 0, y |-> 0]
    /\ editor.quality = 8
    /\ editor.confirmPending
    /\ editor.converting = [width |-> 800, height |-> 450]

\* C20 as stated: the image confirmed in that scenario has width / height of
\* about 4/3 (up to one pixel).
C20_DefaultRegionYieldsFourThirds ==
    [][(DefaultScenario /\ editor'.confirms > editor.confirms) =>
          /\ 3 * editor'.converting.width <= 4 * (editor'.converting.height + 1)
          /\ 4 * editor'.converting.height <= 3 * (editor'.converting.width + 1)]_vars

\* C24: when an image of w by h pixels is first loaded, the region is x = 0.1 w,
\* y = 0.1 h, width = 0.8 w, height = 0.8 h (ten times each, in tenths of a
\* pixel, is w, h, 8 w, 8 h pixels), and it lies within the image with a
\* positive width and height, whatever w, h > 0.
C24_InitialRegionIsInset ==
    [][(~editor.imageLoaded /\ editor'.imageLoaded) =>
          LET w == editor.source.width
              h == editor.source.height
              r == editor'.cropArea
          IN  /\ w > 0 /\ h > 0
              /\ 10 * r.x = Px(w) /\ 10 * r.y = Px(h)
              /\ 10 * r.width = 8 * Px(w) /\ 10 * r.height = 8 * Px(h)
              /\ 0 <= r.x /\ 0 <= r.y
              /\ r.x + r.width <= Px(w) /\ r.y + r.height <= Px(h)
              /\ r.width > 0 /\ r.height > 0]_vars

\* C24's case: an image of 1 by 7 pixels, its sides no multiples of ten, loaded
C24_OddImageLoaded ==
    /\ editor.imageLoaded
    /\ editor.imageSize = [width |-> 1, height |-> 7]
    /\ editor.cropArea = [x |-> 1, y |-> 7, width |-> 8, height |-> 56]

\* the rectangle r is the one spanned by the points a and p: its corner is the
\* lesser coordinate of the two on each axis, its extent their distance
SpannedBy(r, a, p) ==
    /\ r.x <= a.x /\ r.x <= p.x /\ r.x \in {a.x, p.x}
    /\ r.y <= a.y /\ r.y <= p.y /\ r.y \in {a.y, p.y}
    /\ r.width >= 0 /\ r.width \in {p.x - a.x, a.x - p.x}
    /\ r.height >= 0 /\ r.height \in {p.y - a.y, a.y - p.y}

\* C25: a pointer-down at a makes a the anchor of the drag, and every
\* pointer-move to p during the drag leaves the region equal to the rectangle
\* spanned by the anchor and p: x = min(ax, px), y = min(ay, py),
\* width = |px - ax|, height = |py - ay|, neither negative in any direction.
C25_DragSpansAnchorAndPointer ==
    [][\A p \in PointerPositions(editor) :
          /\ (editor.mounted /\ editor' = HandleMouseDown(editor, p))
                => editor'.isDragging /\ editor'.dragStart = p
          /\ (editor.mounted /\ editor.isDragging /\ editor' = HandleMouseMove(editor, p))
                => /\ editor'.dragStart = editor.dragStart
                   /\ SpannedBy(editor'.cropArea, editor.dragStart, p)]_vars

\* C25's case: a drag from (100, 720) up and to the right, to (1280, 0)
C25_DraggedUpAndRight ==
    /\ editor.mounted /\ editor.imageLoaded /\ editor.isDragging
    /\ editor.dragStart = [x |-> Px(100), y |-> Px(720)]
    /\ editor.cropArea = [x |-> Px(100), y |-> Px(0), width |-> Px(1180), height |-> Px(720)]

\* the CropRegion bounds, for a region r in tenths of a pixel and a source image
WithinSource(r, size) ==
    /\ 0 <= r.x /\ 0 <= r.y
    /\ r.x + r.width <= Px(size.width)
    /\ r.y + r.height <= Px(size.height)

\* C26: in every state reached by loading an image and by pointer-down,
\* pointer-move and pointer-up events at positions within the canvas, the
\* region satisfies 0 <= x, 0 <= y, x + width <= sourceWidth and
\* y + height <= sourceHeight.
C26_RegionWithinSource ==
    (editor.mounted /\ editor.imageLoaded) => WithinSource(editor.cropArea, editor.imageSize)

\* C27: a pointer-up or pointer-leave ends the drag and leaves the region as it
\* is; while no drag is in progress the region stays unchanged, whatever
\* pointer-moves, size, scale and quality changes and encodes happen (only the
\* load of the image sets it), and only a pointer-down starts a drag.
C27_ReleasedRegionIsFrozen ==
    [][(editor.mounted /\ editor'.mounted) =>
          /\ (editor.isDragging /\ ~editor'.isDragging)
                => editor'.cropArea = editor.cropArea
          /\ (~editor.isDragging /\ ~editor'.isDragging)
                => \/ editor'.cropArea = editor.cropArea
                   \/ ~editor.imageLoaded /\ editor' = ImageOnLoad(editor)
          /\ (~editor.isDragging /\ editor'.isDragging)
                => \E p \in PointerPositions(editor) : editor' = HandleMouseDown(editor, p)]_vars

\* C27's case: the drag from (0, 0) to (100, 720) released, and the preview of
\* the region it left encoded
C27_ReleasedAfterDrag ==
    /\ editor.mounted /\ editor.imageLoaded /\ ~editor.isDragging
    /\ editor.dragStart = [x |-> Px(0), y |-> Px(0)]
    /\ editor.cropArea = [x |-> Px(0), y |-> Px(0), width |-> Px(100), height |-> Px(720)]
    /\ editor.previewEncodes = <<>> /\ editor.previewBlob

\* C28: the preview is sized from the output size times the scale under the
\* aspect-ratio test, so the canvas the preview was rendered on has the pixel
\* dimensions of the canvas confirm renders for the same region and settings.
C28_PreviewSizedAsConfirmed ==
    [][(editor.mounted /\ editor'.confirms > editor.confirms) =>
          /\ editor.previewCanvas =
                 CanvasSize(editor.cropArea, editor.outputSize.width * editor.scale,
                            editor.outputSize.height * editor.scale, 10)
          /\ editor'.converting = editor.previewCanvas]_vars

\* C29: once no preview encode is in flight, whatever the order in which the
\* callbacks ran, the preview displayed is the encode of the latest inputs: an
\* encode that finishes late never replaces a newer one.
C29_LatestPreviewDisplayed ==
    (/\ editor.mounted /\ editor.imageLoaded
     /\ editor.previewEncodes = <<>> /\ editor.previewBlob) => editor.previewLatest

\* the canvas c is the target wNum/den by hNum/den fitted to the region r: no
\* dimension exceeds the target, the one too large for the region's aspect
\* ratio is reduced and the other is the target's
FittedWithin(c, r, wNum, hNum, den) ==
    /\ c.width * den <= wNum /\ c.height * den <= hNum
    /\ (wNum * r.height > hNum * r.width)
          => c.height = hNum \div den /\ c.width * den < wNum
    /\ (wNum * r.height < hNum * r.width)
          => c.width = wNum \div den /\ c.height * den < hNum
    /\ (wNum * r.height = hNum * r.width)
          => c.width = wNum \div den /\ c.height = hNum \div den

\* C30: for every region with width, height > 0 and every target size, the
\* preview canvas is no wider and no higher than the target, and the confirmed
\* canvas no wider and no higher than the target times the scale; the dimension
\* too large for the region's aspect ratio is the one reduced, the other kept.
C30_RenderFitsRequestedSize ==
    [][/\ (editor'.mounted /\ Len(editor'.previewEncodes) > Len(editor.previewEncodes))
            => /\ editor'.cropArea.width > 0 /\ editor'.cropArea.height > 0
               /\ FittedWithin(editor'.previewCanvas, editor'.cropArea,
                               editor'.outputSize.width, editor'.outputSize.height, 1)
       /\ (editor.mounted /\ editor'.confirms > editor.confirms)
            => /\ editor.cropArea.width > 0 /\ editor.cropArea.height > 0
               /\ FittedWithin(editor'.converting, editor.cropArea,
                               editor.outputSize.width * editor.scale,
                               editor.outputSize.height * editor.scale, 10)]_vars

\* C30's case: the default region of the 1280 x 720 frame confirmed for
\* 800 x 600 at scale 1.5: the width 1200 kept, the height reduced from 900
C30_HeightReducedAtScale ==
    /\ editor.confirmPending /\ editor.scale = 15
    /\ editor.outputSize = [width |-> 800, height |-> 600]
    /\ editor.cropArea = [x |-> Px(128), y |-> Px(72), width |-> Px(1024), height |-> Px(576)]
    /\ editor.converting = [width |-> 1200, height |-> 675]

\* ------------------------------------------------- camera page: claims
\* C3: once the modal is closed and no getUserMedia request is pending, no
\* acquired stream is live, whatever the order of events and completions.
C3_NoLiveStreamAfterClose ==
    /\ (IsModal /\ mounted /\ ~modal.isOpen /\ modal.gumPending = 0)
           => cam.live = {}
    /\ (IsCapture /\ mounted /\ ~capture.isOpen /\ capture.gumPending = 0)
           => cam.live = {}

\* C4: the step that unmounts the component (its cleanup runs in that step)
\* leaves no acquired stream with a live track.
C4_UnmountReleasesCamera ==
    [][(mounted /\ ~mounted') => cam'.live = {}]_vars

\* C5: at every moment at most one acquired stream has un-stopped tracks.
C5_AtMostOneLiveStream == Cardinality(cam.live) <= 1

\* C6: in CameraCapture, the step that switches the facing mode while a stream
\* is held leaves that stream with exactly one stop() call on its tracks.
C6_SwitchStopsPreviousOnce ==
    [][(/\ IsCapture /\ mounted
        /\ capture.facingMode' # capture.facingMode
        /\ capture.stream # 0)
       => cam'.stops[capture.stream] = 1]_vars

\* C7: every step from closed to open ends in the camera stage with no
\* captured image held.
C7_OpensInCameraStage ==
    [][/\ (IsModal /\ ~modal.isOpen /\ modal.isOpen')
            => (modal.step' = "camera" /\ ~modal.blob')
       /\ (IsCapture /\ ~capture.isOpen /\ capture.isOpen')
            => (capture.step' = "camera" /\ capture.image' = 0)]_vars

\* C8: the stage changes only along the specified transitions: preview is
\* entered from editing only, never from camera, and editing is entered only
\* with a captured image held.
C8_StageTransitions ==
    [][/\ capture.step' = "preview" /\ capture.step # "preview"
            => capture.step = "editing"
       /\ capture.step' = "editing" /\ capture.step # "editing"
            => capture.image' # 0
       /\ modal.step' \in {"camera", "editing"}
       /\ modal.step' = "editing" /\ modal.step # "editing"
            => modal.blob']_vars

\* C9: the step that closes CameraCapture (handleClose or the final confirm)
\* leaves every object URL created so far revoked.
C9_UrlsRevokedOnClose ==
    [][(IsCapture /\ capture.isOpen /\ ~capture.isOpen')
       => capture.revoked' = 1..capture.urls']_vars

\* the page with the stop() counts left out
WithoutStopCounts(S) == [S EXCEPT !.cam.stops = CameraInitial.stops]

\* C10 (as the code has it): stopCamera called twice in a row leaves the same
\* state as called once; CameraModal's stopCamera also calls stop() on each
\* track at most once, in a row and over the whole run, while CameraCapture's
\* stopCamera leaves the same state up to the number of stop() calls.
C10_StopCameraIdempotentOnState ==
    /\ IsModal =>
          /\ ModalStopCamera(ModalStopCamera(Page)) = ModalStopCamera(Page)
          /\ \A s \in StreamIds : cam.stops[s] <= 1
    /\ IsCapture =>
          \A k \in 0..cam.acquired :
              WithoutStopCounts(CaptureStopCamera(CaptureStopCamera(Page, k), k))
                  = WithoutStopCounts(CaptureStopCamera(Page, k))

\* C10's case: CameraModal closed with a held stream, where handleClose, the
\* effect cleanup and the effect body called stopCamera three times in a row
C10_ModalStoppedInARow ==
    /\ IsModal /\ mounted /\ ~modal.isOpen /\ modal.streamRef = 0
    /\ \E s \in StreamIds : cam.stops[s] = 1 /\ s \notin cam.live

\* C10 as stated: in both components a second stopCamera in a row changes
\* nothing, the stop() calls on the tracks included.
C10_StopCameraStopsTracksOnce ==
    /\ IsModal =>
          ModalStopCamera(ModalStopCamera(Page)) = ModalStopCamera(Page)
    /\ IsCapture =>
          \A k \in 0..cam.acquired :
              CaptureStopCamera(CaptureStopCamera(Page, k), k)
                  = CaptureStopCamera(Page, k)

\* C16: when the upload that follows a crop confirmation fails with a transport
\* error the flow is back in the camera stage and still open; when the file is
\* refused by the local validation the stage is unchanged and the flow is open.
UploadFailsWith(outcome) ==
    /\ IsModal /\ mounted /\ modal.isOpen /\ modal.uploadPending > 0
    /\ Becomes(ModalUploadSettled(Page, outcome))

C16_FailedUploadReturnsToCamera ==
    [][/\ UploadFailsWith("network")
          => modal'.step = "camera" /\ modal'.isOpen
       /\ UploadFailsWith("tooLarge")
          => modal'.step = modal.step /\ modal'.isOpen]_vars

\* C17: a snapshot requested before the stream reports playable produces no
\* image and leaves the stage in camera: the request starts no conversion of a
\* frame, and no conversion started that early moves the stage or stores a blob.
C17_EarlySnapshotProducesNothing ==
    [][IsModal =>
         /\ modal'.blobPending > modal.blobPending => modal.ready
         /\ (modal.earlySnapshot /\ modal'.blobPending < modal.blobPending)
            => modal'.step = modal.step /\ modal'.blob = modal.blob]_vars

\* C21: whenever the stage is editing or reviewing (preview), no acquired
\* camera stream has a live track.
C21_NoLiveStreamWhileEditing ==
    /\ (IsModal /\ mounted /\ modal.isOpen /\ modal.step = "editing")
           => cam.live = {}
    /\ (IsCapture /\ mounted /\ capture.isOpen
        /\ capture.step \in {"editing", "preview"})
           => cam.live = {}

\* C22: cancel from editing and retake from preview each move the stage to
\* camera and each put a getUserMedia request in flight, and a stream granted
\* while the open component is in the camera stage is live after that step, so
\* that the camera is live again unless the request is refused.
C22_CancelAndRetakeReopenCamera ==
    [][/\ (IsModal /\ CropperMounted(Page) /\ Becomes(ModalCancelEditing(Page)))
            => modal'.step = "camera" /\ modal'.gumPending > modal.gumPending
       /\ (IsCapture /\ CropperMounted(Page)
           /\ Becomes(Rerender(Page, CaptureCancelEditing(Page))))
            => capture'.step = "camera" /\ capture'.gumPending > capture.gumPending
       /\ (PreviewShown /\ Becomes(Rerender(Page, CaptureRetakePhoto(Page))))
            => capture'.step = "camera" /\ capture'.gumPending > capture.gumPending
       /\ (/\ mounted /\ cam'.acquired > cam.acquired
           /\ \/ IsModal /\ modal.isOpen /\ modal.step = "camera"
              \/ IsCapture /\ capture.isOpen /\ capture.step = "camera")
            => cam'.acquired \in cam'.live]_vars

\* C23: cancel in the crop editor leaves the component that mounted it with no
\* captured image, and an editor that was removed hands no image to onConfirm
\* (no upload is started and no final image is stored by a conversion that
\* was still in flight when the editor went away).
C23_CancelDiscardsCapture ==
    [][/\ (IsModal /\ CropperMounted(Page) /\ Becomes(ModalCancelEditing(Page)))
            => ~modal'.blob
       /\ (IsCapture /\ CropperMounted(Page)
           /\ Becomes(Rerender(Page, CaptureCancelEditing(Page))))
            => capture'.image = 0
       /\ (cropper'.orphans < cropper.orphans)
            => /\ modal'.uploadPending = modal.uploadPending
               /\ capture'.urls = capture.urls]_vars

\* C31: once CameraCapture is open in the camera step and the user does nothing
\* more, the camera is acquired a bounded number of times: either the user
\* keeps acting, or from some moment on no getUserMedia request is in flight,
\* none being issued any more.
C31_AcquisitionSettles ==
    []<><<CaptureUserActs>>_vars \/ <>[](capture.gumPending = 0)

\* C32: in CameraModal at most one upload of a capture is in flight at any
\* time: while the upload a crop confirmation started has not settled, a
\* further Confirm in the editor starts no second one.
C32_OneUploadInFlight ==
    IsModal => modal.uploadPending <= 1

\* C35: the close that CameraModal sets one second after a save closes only
\* the session that made the save, never one the user opened after closing
\* that session by hand.
C35_AutoCloseHitsItsOwnSession ==
    [][(/\ IsModal /\ modal'.closeTimers < modal.closeTimers
        /\ modal.isOpen /\ ~modal'.isOpen) => ~modal.reopened]_vars

\* C33: a transport error during a gallery upload is recoverable: once the
\* batch has ended the upload and camera triggers can be used again, the API
\* status not being 'error'.
C33_TriggersUsableAfterError ==
    (gallery.pc = "idle" /\ ~gallery.uploading) => gallery.apiStatus # "error"

\* C34: once no set-primary, delete, upload or list request is in flight, the
\* gallery shown is the result of the list query issued last: a list response
\* that arrives late never replaces the result of a newer query.
C34_LatestListShown ==
    (/\ gallery.lists = <<>> /\ gallery.pc = "idle" /\ gallery.camUploads = 0
     /\ gallery.latestRows # -1) => gallery.photos = gallery.latestRows

\* the list queries in flight that an uploadPhotos call awaits
AwaitedLists(g) == {i \in 1..Len(g.lists) : g.lists[i].awaited}

\* C36: with a productId, uploadPhotos handles the N files one at a time in
\* order: while the loop waits, exactly the file it is at is in flight, the
\* files before it are settled (ok or failed) and those after it untouched; a
\* failing file does not end the loop; when the batch has ended
\* successCount + errorCount = N; and the step that ends the loop issues one
\* list query if and only if a file succeeded, no other step of the batch
\* issuing one.
C36_LoopHandlesEveryFile ==
    [][gallery'.productId # 0 =>
         /\ gallery'.pc = "loop" =>
               /\ gallery'.idx \in 1..Len(gallery'.batch)
               /\ \A i \in 1..Len(gallery'.batch) :
                     /\ i < gallery'.idx => gallery'.status[i] \in {"ok", "failed"}
                     /\ i = gallery'.idx => gallery'.status[i] = "sent"
                     /\ i > gallery'.idx =>
                           gallery'.status[i] = "new" /\ gallery'.requests[i] = 0
               /\ AwaitedLists(gallery') = {}
         /\ gallery'.pc \in {"refresh", "idle"} =>
               /\ gallery'.successCount + gallery'.errorCount = Len(gallery'.batch)
               /\ gallery'.successCount = CountStatus(gallery', "ok")
               /\ gallery'.errorCount = CountStatus(gallery', "failed")
               /\ Cardinality(AwaitedLists(gallery')) =
                     IF gallery'.pc = "refresh" THEN 1 ELSE 0
         /\ (\/ gallery.pc = "loop"
             \/ gallery.pc = "idle" /\ gallery' = UploadPhotos(gallery, gallery'.batch))
            /\ gallery'.pc # "loop" =>
               /\ gallery'.pc = "refresh" <=> gallery'.successCount > 0
               /\ Len(gallery'.lists) =
                     Len(gallery.lists) + (IF gallery'.successCount > 0 THEN 1 ELSE 0)
         /\ (gallery.pc = "refresh" /\ gallery'.pc = "idle") =>
               Len(gallery'.lists) = Len(gallery.lists) - 1]_vars

\* C36's case: three files, the first failed in transport, the second refused
\* as no image, the third stored; the batch ended after its one list query
C36_ThirdStoredAfterTwoFailures ==
    /\ gallery.productId # 0 /\ gallery.pc = "idle" /\ gallery.lists = <<>>
    /\ gallery.batch = <<"good", "notImage", "good">>
    /\ gallery.status = <<"failed", "failed", "ok">>
    /\ gallery.apiStatus = "error"
    /\ gallery.successCount = 1 /\ gallery.errorCount = 2
    /\ gallery.successToast = 1 /\ gallery.failureToast = 2

====
